---- MODULE Spec2Model ----
(***************************************************************************)
(* Model of the HomeAdvisor sample REST API (Express + Knex over SQLite):  *)
(* the five tables of the migration, the request handlers of the business  *)
(* and per-child routers, and the search query.                             *)
(*                                                                         *)
(* Conventions.                                                            *)
(*  - A JSON field that may be missing (JS undefined) and a nullable       *)
(*    column are an option: <<>> is missing / NULL, <<v>> is the value v.  *)
(*  - A string is a sequence of one-character strings.                     *)
(*  - uuid.v4() is a fresh id: the least id never stored so far.           *)
(*  - db is the committed content of the store; a handler is one action    *)
(*    in the sequential specifications and one action per awaited query    *)
(*    in the concurrent one.                                               *)
(*  - last is the last request answered and its response; inflight holds   *)
(*    the requests of the concurrent specification that await a query;     *)
(*    deleted is a history variable, the rows a successful                 *)
(*    DELETE /businesses/{id} found stored for the business it removed.    *)
(*  - now is the clock of the store in seconds, the resolution of the     *)
(*    created_at default CURRENT_TIMESTAMP.                                *)
(***************************************************************************)
EXTENDS Integers, Sequences, FiniteSets, TLC

VARIABLES db, nextId, last, inflight, deleted, now

vars == <<db, nextId, last, inflight, deleted, now>>

----------------------------------------------------------------------------
(* Bounds of the model *)

\* ids the model may hand out (uuid.v4() itself never runs out)
MaxId == 4

\* rows a nested collection of a create payload may carry
MaxNested == 2

\* requests the concurrent specification has awaiting a query at one time
MaxInflight == 2

\* ids the search specification may hand out
MaxSearchId == 7

\* ids the page specification may hand out: more businesses than a page holds
MaxPageId == 28

\* seconds the clock of the store may advance
MaxNow == 1

----------------------------------------------------------------------------
(* Options and strings *)

None == <<>>

Some(v) == <<v>>

IsSome(o) == Len(o) > 0

Val(o) == o[1]

UpperCase ==
    <<"A", "B", "C", "D", "E", "F", "G", "H", "I", "J", "K", "L", "M",
      "N", "O", "P", "Q", "R", "S", "T", "U", "V", "W", "X", "Y", "Z">>

LowerCase ==
    <<"a", "b", "c", "d", "e", "f", "g", "h", "i", "j", "k", "l", "m",
      "n", "o", "p", "q", "r", "s", "t", "u", "v", "w", "x", "y", "z">>

\* String.prototype.toLowerCase on one ASCII character
LowerChar(c) ==
    IF \E i \in 1..Len(UpperCase) : UpperCase[i] = c
    THEN LowerCase[CHOOSE i \in 1..Len(UpperCase) : UpperCase[i] = c]
    ELSE c

toLowerCase(s) == [i \in 1..Len(s) |-> LowerChar(s[i])]

\* JS truthiness of an optional string: undefined and "" are falsy
Truthy(o) == IsSome(o) /\ Len(Val(o)) > 0

----------------------------------------------------------------------------
(* The store: tables and their constraints (the migration) *)

EmptyDb ==
    [businesses |-> {}, locations |-> {}, hours |-> {}, services |-> {}, reviews |-> {}]

ChildTables == {"locations", "hours", "services", "reviews"}

Ok(d) == [ok |-> TRUE, db |-> d]

Fail(d) == [ok |-> FALSE, db |-> d]

\* PRAGMA foreign_keys of the SQLite connection (set where the connection is
\* configured): the declared foreign keys are enforced.
ForeignKeysEnforced == TRUE

\* the child tables without their foreign key
ForeignKeyUnchecked(d, businessId) == TRUE

\* table.foreign('businessId').references('id').inTable('businesses')
ForeignKeyOk(d, businessId) ==
    ForeignKeysEnforced => \E b \in d.businesses : b.id = businessId

\* table.uuid('id').primary()
PrimaryKeyOk(rows, id) == \A r \in rows : r.id # id

\* the businesses table without unique() on name
BusinessNameNotNull(d, id, name) == IsSome(name)

\* businesses: name notNullable().unique()
BusinessNameOk(d, id, name) ==
    /\ IsSome(name)
    /\ \A b \in d.businesses : b.id # id => b.name # Val(name)

\* the hours table without its unique(['businessId', 'dayOfWeek'])
HourRowNotNull(d, id, businessId, h) ==
    IsSome(h.dayOfWeek) /\ IsSome(h.open) /\ IsSome(h.close)

\* hours: dayOfWeek, open, close notNullable(); unique(['businessId', 'dayOfWeek'])
HourRowOk(d, id, businessId, h) ==
    /\ IsSome(h.dayOfWeek) /\ IsSome(h.open) /\ IsSome(h.close)
    /\ \A r \in d.hours :
          r.id # id => ~(r.businessId = businessId /\ r.dayOfWeek = Val(h.dayOfWeek))

\* locations: name notNullable(); unique(['businessId', 'name'])
LocationRowOk(d, id, businessId, l) ==
    /\ IsSome(l.name)
    /\ \A r \in d.locations :
          r.id # id => ~(r.businessId = businessId /\ r.name = Val(l.name))

\* services: name notNullable(); unique(['businessId', 'name'])
ServiceRowOk(d, id, businessId, s) ==
    /\ IsSome(s.name)
    /\ \A r \in d.services :
          r.id # id => ~(r.businessId = businessId /\ r.name = Val(s.name))

\* reviews: rating notNullable(); comment nullable; no uniqueness
ReviewRowOk(d, id, businessId, r) == IsSome(r.rating)

\* db('businesses').insert(business)
InsertBusiness(d, b) ==
    IF PrimaryKeyOk(d.businesses, b.id) /\ BusinessNameOk(d, b.id, b.name)
    THEN Ok([d EXCEPT !.businesses = @ \cup
                {[id |-> b.id, name |-> Val(b.name),
                  addressLine1 |-> b.addressLine1, addressLine2 |-> b.addressLine2,
                  city |-> b.city, state |-> b.state, postal |-> b.postal]}])
    ELSE Fail(d)

\* db('hours').insert(hour): one row, already stamped with id and businessId
InsertHour(d, h) ==
    IF /\ PrimaryKeyOk(d.hours, h.id)
       /\ ForeignKeyOk(d, h.businessId)
       /\ HourRowOk(d, h.id, h.businessId, h)
    THEN Ok([d EXCEPT !.hours = @ \cup
                {[id |-> h.id, businessId |-> h.businessId,
                  dayOfWeek |-> Val(h.dayOfWeek), open |-> Val(h.open),
                  close |-> Val(h.close)]}])
    ELSE Fail(d)

\* db('locations').insert(location)
InsertLocation(d, l) ==
    IF /\ PrimaryKeyOk(d.locations, l.id)
       /\ ForeignKeyOk(d, l.businessId)
       /\ LocationRowOk(d, l.id, l.businessId, l)
    THEN Ok([d EXCEPT !.locations = @ \cup
                {[id |-> l.id, businessId |-> l.businessId, name |-> Val(l.name)]}])
    ELSE Fail(d)

\* db('services').insert(service)
InsertService(d, s) ==
    IF /\ PrimaryKeyOk(d.services, s.id)
       /\ ForeignKeyOk(d, s.businessId)
       /\ ServiceRowOk(d, s.id, s.businessId, s)
    THEN Ok([d EXCEPT !.services = @ \cup
                {[id |-> s.id, businessId |-> s.businessId, name |-> Val(s.name)]}])
    ELSE Fail(d)

\* db('reviews').insert(review); table.timestamps(true, true) stamps
\* created_at with the second of the insert
InsertReview(d, r) ==
    IF /\ PrimaryKeyOk(d.reviews, r.id)
       /\ ForeignKeyOk(d, r.businessId)
       /\ ReviewRowOk(d, r.id, r.businessId, r)
    THEN Ok([d EXCEPT !.reviews = @ \cup
                {[id |-> r.id, businessId |-> r.businessId,
                  rating |-> Val(r.rating), comment |-> r.comment,
                  created_at |-> now]}])
    ELSE Fail(d)

InsertRow(table, d, row) ==
    CASE table = "locations" -> InsertLocation(d, row)
      [] table = "hours"     -> InsertHour(d, row)
      [] table = "services"  -> InsertService(d, row)
      [] table = "reviews"   -> InsertReview(d, row)

\* db(table).insert(list): the rows of one multi-row insert go in together
\* or the statement fails and stores none of them
RECURSIVE InsertFrom(_, _, _, _)
InsertFrom(table, d, rows, i) ==
    IF i > Len(rows) THEN Ok(d)
    ELSE LET r == InsertRow(table, d, rows[i])
         IN  IF r.ok THEN InsertFrom(table, r.db, rows, i + 1) ELSE r

InsertRows(table, d, rows) ==
    LET r == InsertFrom(table, d, rows, 1)
    IN  IF r.ok THEN r ELSE Fail(d)

\* the child tables without onDelete('CASCADE')
NoCascade(rows, businessId) == rows

\* onDelete('CASCADE') of the four child tables
CascadeDelete(rows, businessId) ==
    IF ForeignKeysEnforced THEN {r \in rows : r.businessId # businessId} ELSE rows

\* db('businesses').del().where({id})
DeleteBusiness(d, id) ==
    [businesses |-> {b \in d.businesses : b.id # id},
     locations  |-> CascadeDelete(d.locations, id),
     hours      |-> CascadeDelete(d.hours, id),
     services   |-> CascadeDelete(d.services, id),
     reviews    |-> CascadeDelete(d.reviews, id)]

\* the business taken to exist without a query
businessCountAssumed(d, id) == 1

\* db('businesses').count('* as c').where({id})
businessCount(d, id) == Cardinality({b \in d.businesses : b.id = id})

----------------------------------------------------------------------------
(* Requests the model sends *)

\* all sequences over S of length at most n
RECURSIVE SeqsUpTo(_, _)
SeqsUpTo(S, n) ==
    IF n = 0 THEN {<<>>}
    ELSE LET shorter == SeqsUpTo(S, n - 1)
         IN  shorter \cup {Append(q, x) : q \in {t \in shorter : Len(t) = n - 1}, x \in S}

Ids == 1..MaxId

BusinessNames == {<<"a">>, <<"b">>}

HourBody(i, d, o, c) ==
    [id |-> i, businessId |-> i, dayOfWeek |-> d, open |-> o, close |-> c]

NameBody(i, n) == [id |-> i, businessId |-> i, name |-> n]

ReviewBody(i, r, c) == [id |-> i, businessId |-> i, rating |-> r, comment |-> c]

\* hour bodies: two valid rows for day 0, one for day 6, and bodies the hours
\* router rejects (open >= close, out of range, a field missing)
ValidHourBodies ==
    {HourBody(None, Some(0), Some(8), Some(17)),
     HourBody(Some(1), Some(0), Some(9), Some(12)),
     HourBody(None, Some(6), Some(0), Some(23))}

InvalidHourBodies ==
    {HourBody(None, Some(1), Some(17), Some(8)),
     HourBody(None, Some(1), Some(8), Some(8)),
     HourBody(None, Some(7), Some(8), Some(17)),
     HourBody(None, Some(0 - 1), Some(8), Some(17)),
     HourBody(None, Some(1), Some(8), Some(24)),
     HourBody(None, Some(1), Some(0 - 1), Some(17)),
     HourBody(None, Some(1), Some(8), None),
     HourBody(None, None, Some(8), Some(17))}

HourBodies == ValidHourBodies \cup InvalidHourBodies

NameBodies ==
    {NameBody(None, Some(<<"a">>)), NameBody(Some(1), Some(<<"b">>)),
     NameBody(None, None), NameBody(None, Some(<<>>))}

ReviewBodies ==
    {ReviewBody(None, Some(2), None), ReviewBody(Some(1), Some(5), Some(<<"a">>)),
     ReviewBody(None, Some(6), None), ReviewBody(None, None, None)}

\* one valid body for each child table, carrying i as its id and businessId
ValidBody(table, i) ==
    CASE table = "hours"     -> HourBody(i, Some(0), Some(8), Some(17))
      [] table = "locations" -> NameBody(i, Some(<<"a">>))
      [] table = "services"  -> NameBody(i, Some(<<"a">>))
      [] table = "reviews"   -> ReviewBody(i, Some(5), None)

BusinessBody(i, n, a, ls, hs, ss, rs) ==
    [id |-> i, name |-> n,
     addressLine1 |-> a, addressLine2 |-> a, city |-> a, state |-> a, postal |-> a,
     locations |-> ls, hours |-> hs, services |-> ss, reviews |-> rs]

\* the body of a business put; addressline2 is the key the put's 400 check reads
PutBody(i, n, a1, a2, lower2) ==
    [id |-> i, name |-> n, addressLine1 |-> a1, addressLine2 |-> a2,
     addressline2 |-> lower2, city |-> None, state |-> None, postal |-> None]

NestedCount(p) == Len(p.locations) + Len(p.hours) + Len(p.services) + Len(p.reviews)

----------------------------------------------------------------------------
(* POST /businesses *)

\* addIds keeping the id an item came with
addIdsKeepsBodyId(list, businessId, base) ==
    [i \in 1..Len(list) |->
        [list[i] EXCEPT !.id = IF IsSome(@) THEN Val(@) ELSE base + i,
                        !.businessId = businessId]]

\* addIds(list, businessId): every item gets a fresh id and the business's id;
\* the items of one request take the ids base + 1, base + 2, ...
addIds(list, businessId, base) ==
    [i \in 1..Len(list) |->
        [list[i] EXCEPT !.id = base + i, !.businessId = businessId]]

\* the inserts left as they stand (not run on trx)
RollbackKeepsInserts(before, working) == working

\* db.transaction(...) rejected: knex rolls back, the store is as it was
Rollback(before, working) == before

\* the inserts of the create run outside the transaction: each one that
\* succeeded stays when a later one throws
CreateTransactionAutocommit(d, business, locs, hrs, svcs, revs) ==
    LET r1 == InsertBusiness(d, business)
        r2 == IF r1.ok /\ Len(locs) > 0 THEN InsertRows("locations", r1.db, locs) ELSE r1
        r3 == IF r2.ok /\ Len(hrs) > 0 THEN InsertRows("hours", r2.db, hrs) ELSE r2
        r4 == IF r3.ok /\ Len(svcs) > 0 THEN InsertRows("services", r3.db, svcs) ELSE r3
        r5 == IF r4.ok /\ Len(revs) > 0 THEN InsertRows("reviews", r4.db, revs) ELSE r4
    IN  r5

\* the body of db.transaction(async (trx) => {...}): the inserts in order, each
\* skipped once an earlier one has thrown; commit when none threw
CreateTransaction(d, business, locs, hrs, svcs, revs) ==
    LET r1 == InsertBusiness(d, business)
        r2 == IF r1.ok /\ Len(locs) > 0 THEN InsertRows("locations", r1.db, locs) ELSE r1
        r3 == IF r2.ok /\ Len(hrs) > 0 THEN InsertRows("hours", r2.db, hrs) ELSE r2
        r4 == IF r3.ok /\ Len(svcs) > 0 THEN InsertRows("services", r3.db, svcs) ELSE r3
        r5 == IF r4.ok /\ Len(revs) > 0 THEN InsertRows("reviews", r4.db, revs) ELSE r4
    IN  IF r5.ok THEN r5 ELSE Fail(Rollback(d, r5.db))

\* the rows router.post('/') hands to the transaction
CreateRows(p, id) ==
    [business |-> [id |-> id, name |-> p.name,
                   addressLine1 |-> p.addressLine1, addressLine2 |-> p.addressLine2,
                   city |-> p.city, state |-> p.state, postal |-> p.postal],
     locations |-> addIds(p.locations, id, id),
     hours     |-> addIds(p.hours, id, id + Len(p.locations)),
     services  |-> addIds(p.services, id, id + Len(p.locations) + Len(p.hours)),
     reviews   |-> addIds(p.reviews, id,
                          id + Len(p.locations) + Len(p.hours) + Len(p.services))]

BusinessCreate(p, cap) ==
    /\ inflight = {}
    /\ nextId + NestedCount(p) <= cap
    /\ IF ~Truthy(p.name)
       THEN /\ last' = [op |-> "POST /businesses", req |-> p, id |-> nextId,
                        status |-> 400]
            /\ UNCHANGED <<db, nextId>>
       ELSE LET rows == CreateRows(p, nextId)
                r == CreateTransaction(db, rows.business, rows.locations, rows.hours,
                                       rows.services, rows.reviews)
            IN  /\ db' = r.db
                /\ nextId' = IF r.ok THEN nextId + 1 + NestedCount(p) ELSE nextId
                /\ last' = [op |-> "POST /businesses", req |-> p, id |-> nextId,
                            status |-> IF r.ok THEN 200 ELSE 500]
    /\ UNCHANGED <<inflight, deleted, now>>

----------------------------------------------------------------------------
(* DELETE /businesses/{businessId} *)

\* the business row and the child rows stored for a business, each named by its
\* table, id and businessId
RowsOfBusiness(d, id) ==
    {[table |-> "businesses", id |-> b.id, businessId |-> b.id] :
        b \in {x \in d.businesses : x.id = id}}
    \cup UNION {{[table |-> t, id |-> r.id, businessId |-> r.businessId] :
                    r \in {x \in d[t] : x.businessId = id}} : t \in ChildTables}

BusinessDelete(id) ==
    /\ inflight = {}
    /\ IF businessCount(db, id) < 1
       THEN /\ last' = [op |-> "DELETE /businesses/:businessId", id |-> id, status |-> 404]
            /\ UNCHANGED <<db, deleted>>
       ELSE /\ db' = DeleteBusiness(db, id)
            /\ deleted' = deleted \cup RowsOfBusiness(db, id)
            /\ last' = [op |-> "DELETE /businesses/:businessId", id |-> id, status |-> 200]
    /\ UNCHANGED <<nextId, inflight, now>>

----------------------------------------------------------------------------
(* PUT /businesses/{businessId} *)

\* the 400 check of router.put: it reads addressline2, the update addressLine2
NoFieldSupplied(b) ==
    /\ ~Truthy(b.name) /\ ~Truthy(b.addressLine1) /\ ~Truthy(b.addressline2)
    /\ ~Truthy(b.city) /\ ~Truthy(b.state) /\ ~Truthy(b.postal)

\* x ? x : undefined, and knex leaving an undefined column as it is
Updated(old, new) == IF Truthy(new) THEN new ELSE old

\* an update that writes the attributes the body leaves out as NULL
UpdateBusinessReplacing(d, id, b) ==
    IF Truthy(b.name) /\ ~BusinessNameOk(d, id, b.name)
    THEN Fail(d)
    ELSE Ok([d EXCEPT !.businesses =
                {IF r.id # id THEN r
                 ELSE [id |-> r.id,
                       name |-> IF Truthy(b.name) THEN Val(b.name) ELSE r.name,
                       addressLine1 |-> b.addressLine1, addressLine2 |-> b.addressLine2,
                       city |-> b.city, state |-> b.state, postal |-> b.postal] : r \in @}])

\* db('businesses').update(updatedBusiness).where({id})
UpdateBusiness(d, id, b) ==
    IF Truthy(b.name) /\ ~BusinessNameOk(d, id, b.name)
    THEN Fail(d)
    ELSE Ok([d EXCEPT !.businesses =
                {IF r.id # id THEN r
                 ELSE [id |-> r.id,
                       name |-> IF Truthy(b.name) THEN Val(b.name) ELSE r.name,
                       addressLine1 |-> Updated(r.addressLine1, b.addressLine1),
                       addressLine2 |-> Updated(r.addressLine2, b.addressLine2),
                       city |-> Updated(r.city, b.city),
                       state |-> Updated(r.state, b.state),
                       postal |-> Updated(r.postal, b.postal)] : r \in @}])

\* the count on businesses placed ahead of the check of the body
BusinessPutCountFirst(id, b) ==
    /\ inflight = {}
    /\ IF businessCount(db, id) < 1
       THEN /\ last' = [op |-> "PUT /businesses/:businessId", id |-> id, req |-> b,
                        status |-> 404]
            /\ UNCHANGED db
       ELSE IF NoFieldSupplied(b)
       THEN /\ last' = [op |-> "PUT /businesses/:businessId", id |-> id, req |-> b,
                        status |-> 400]
            /\ UNCHANGED db
       ELSE LET r == UpdateBusiness(db, id, b)
            IN  /\ db' = r.db
                /\ last' = [op |-> "PUT /businesses/:businessId", id |-> id, req |-> b,
                            status |-> IF r.ok THEN 200 ELSE 500]
    /\ UNCHANGED <<nextId, inflight, deleted, now>>

\* router.put('/:businessId'): the check of the body, the count, the update
BusinessPut(id, b) ==
    /\ inflight = {}
    /\ IF NoFieldSupplied(b)
       THEN /\ last' = [op |-> "PUT /businesses/:businessId", id |-> id, req |-> b,
                        status |-> 400]
            /\ UNCHANGED db
       ELSE IF businessCount(db, id) < 1
       THEN /\ last' = [op |-> "PUT /businesses/:businessId", id |-> id, req |-> b,
                        status |-> 404]
            /\ UNCHANGED db
       ELSE LET r == UpdateBusiness(db, id, b)
            IN  /\ db' = r.db
                /\ last' = [op |-> "PUT /businesses/:businessId", id |-> id, req |-> b,
                            status |-> IF r.ok THEN 200 ELSE 500]
    /\ UNCHANGED <<nextId, inflight, deleted, now>>

----------------------------------------------------------------------------
(* The per-child routers: /businesses/{businessId}/{table}[/{id}] *)

\* x === undefined || x < lo || x > hi
OutOfRange(x, lo, hi) == ~IsSome(x) \/ Val(x) < lo \/ Val(x) > hi

\* the range checks alone, open and close in either order
HourBodyValidUnordered(h) ==
    /\ ~OutOfRange(h.dayOfWeek, 0, 6)
    /\ ~OutOfRange(h.open, 0, 23)
    /\ ~OutOfRange(h.close, 0, 23)

\* the four checks of the hours router's post and put
HourBodyValid(h) ==
    /\ ~OutOfRange(h.dayOfWeek, 0, 6)
    /\ ~OutOfRange(h.open, 0, 23)
    /\ ~OutOfRange(h.close, 0, 23)
    /\ ~(Val(h.open) >= Val(h.close))

\* if (!location.name), if (!service.name)
NameBodyValid(b) == Truthy(b.name)

\* review.rating === undefined || review.rating < 0 || review.rating > 5
ReviewBodyValid(r) == ~OutOfRange(r.rating, 0, 5)

BodyValid(table, b) ==
    CASE table = "hours"     -> HourBodyValid(b)
      [] table = "locations" -> NameBodyValid(b)
      [] table = "services"  -> NameBodyValid(b)
      [] table = "reviews"   -> ReviewBodyValid(b)

\* x.id = uuid.v4(); x.businessId = businessId
Stamp(b, id, businessId) == [b EXCEPT !.id = id, !.businessId = businessId]

\* the rows with the id, of whatever business
SelectedById(rows, id, businessId) == {r \in rows : r.id = id}

\* the rows .where({id, businessId}) selects
Selected(rows, id, businessId) == {r \in rows : r.id = id /\ r.businessId = businessId}

\* the row an update of the table writes over r
UpdatedRow(table, r, b) ==
    CASE table = "hours" ->
            [r EXCEPT !.dayOfWeek = Val(b.dayOfWeek), !.open = Val(b.open),
                      !.close = Val(b.close)]
      [] table = "locations" -> [r EXCEPT !.name = Val(b.name)]
      [] table = "services"  -> [r EXCEPT !.name = Val(b.name)]
      [] table = "reviews"   ->
            [r EXCEPT !.rating = Val(b.rating),
                      !.comment = IF IsSome(b.comment) THEN b.comment ELSE @]

\* the table's constraints on the row with this id taking the body's values
UpdateOk(table, d, id, businessId, b) ==
    CASE table = "hours"     -> HourRowOk(d, id, businessId, b)
      [] table = "locations" -> LocationRowOk(d, id, businessId, b)
      [] table = "services"  -> ServiceRowOk(d, id, businessId, b)
      [] table = "reviews"   -> ReviewRowOk(d, id, businessId, b)

\* db(table).update({...}).where({id, businessId})
UpdateRow(table, d, id, businessId, b) ==
    IF Selected(d[table], id, businessId) = {} THEN Ok(d)
    ELSE IF ~UpdateOk(table, d, id, businessId, b) THEN Fail(d)
    ELSE Ok([d EXCEPT ![table] =
                {IF r \in Selected(d[table], id, businessId)
                 THEN UpdatedRow(table, r, b) ELSE r : r \in @}])

\* db(table).del().where({id, businessId})
DeleteRow(table, d, id, businessId) ==
    [d EXCEPT ![table] = @ \ Selected(d[table], id, businessId)]

ChildResponse(verb, table, businessId, id, b, status) ==
    [op |-> verb, table |-> table, businessId |-> businessId, id |-> id, req |-> b,
     status |-> status]

\* router.post('/') of the locations, hours, services and reviews routers
ChildPost(table, businessId, b, cap) ==
    /\ inflight = {}
    /\ nextId <= cap
    /\ IF ~BodyValid(table, b)
       THEN /\ last' = ChildResponse("POST", table, businessId, nextId, b, 400)
            /\ UNCHANGED <<db, nextId>>
       ELSE IF businessCount(db, businessId) < 1
       THEN /\ last' = ChildResponse("POST", table, businessId, nextId, b, 404)
            /\ UNCHANGED <<db, nextId>>
       ELSE LET r == InsertRow(table, db, Stamp(b, nextId, businessId))
            IN  /\ db' = r.db
                /\ nextId' = IF r.ok THEN nextId + 1 ELSE nextId
                /\ last' = ChildResponse("POST", table, businessId, nextId, b,
                                         IF r.ok THEN 200 ELSE 500)
    /\ UNCHANGED <<inflight, deleted, now>>

\* router.put('/:id') of the four routers
ChildPut(table, businessId, id, b) ==
    /\ inflight = {}
    /\ IF ~BodyValid(table, b)
       THEN /\ last' = ChildResponse("PUT", table, businessId, id, b, 400)
            /\ UNCHANGED db
       ELSE IF businessCount(db, businessId) < 1
       THEN /\ last' = ChildResponse("PUT", table, businessId, id, b, 404)
            /\ UNCHANGED db
       ELSE LET r == UpdateRow(table, db, id, businessId, b)
            IN  /\ db' = r.db
                /\ last' = ChildResponse("PUT", table, businessId, id, b,
                                         IF r.ok THEN 200 ELSE 500)
    /\ UNCHANGED <<nextId, inflight, deleted, now>>

\* router.delete('/:id') of the four routers
ChildDelete(table, businessId, id) ==
    /\ inflight = {}
    /\ IF businessCount(db, businessId) < 1
       THEN /\ last' = ChildResponse("DELETE", table, businessId, id, None, 404)
            /\ UNCHANGED db
       ELSE /\ db' = DeleteRow(table, db, id, businessId)
            /\ last' = ChildResponse("DELETE", table, businessId, id, None, 200)
    /\ UNCHANGED <<nextId, inflight, deleted, now>>

\* router.get('/') of the four routers: the rows of the business, or 404
ChildList(table, businessId) ==
    /\ inflight = {}
    /\ last' = [op |-> "LIST", table |-> table, businessId |-> businessId,
                status |-> IF businessCount(db, businessId) < 1 THEN 404 ELSE 200]
    /\ UNCHANGED <<db, nextId, inflight, deleted, now>>

\* router.get('/:id') of the four routers: no parent check, 404 when no row
ChildGet(table, businessId, id) ==
    /\ inflight = {}
    /\ last' = [op |-> "GET", table |-> table, businessId |-> businessId, id |-> id,
                status |-> IF Selected(db[table], id, businessId) # {} THEN 200 ELSE 404]
    /\ UNCHANGED <<db, nextId, inflight, deleted, now>>

----------------------------------------------------------------------------
(* GET /businesses/{businessId} and the hydration of a business row *)

RECURSIVE SumOfRatings(_)
SumOfRatings(rows) ==
    IF rows = {} THEN 0
    ELSE LET r == CHOOSE x \in rows : TRUE
         IN  r.rating + SumOfRatings(rows \ {r})

\* the average cut off after one decimal instead of rounded
avgRatingTruncated(d, businessId) ==
    LET rows == {r \in d.reviews : r.businessId = businessId}
        n == Cardinality(rows)
    IN  IF n = 0 THEN None
        ELSE Some((10 * SumOfRatings(rows)) \div n)

\* round(avg(rating), 1) over the reviews of the business, in tenths; NULL when
\* the business has no review
avgRating(d, businessId) ==
    LET rows == {r \in d.reviews : r.businessId = businessId}
        n == Cardinality(rows)
    IN  IF n = 0 THEN None
        ELSE Some((20 * SumOfRatings(rows) + n) \div (2 * n))

\* the characters of the model in the order of their codes
Ascii == <<"%">> \o UpperCase \o <<"_">> \o LowerCase

CharCode(c) == CHOOSE i \in 1..Len(Ascii) : Ascii[i] = c

\* SQLite's BINARY collation on two strings
RECURSIVE TextLess(_, _)
TextLess(a, b) ==
    IF Len(b) = 0 THEN FALSE
    ELSE IF Len(a) = 0 THEN TRUE
    ELSE IF Head(a) = Head(b) THEN TextLess(Tail(a), Tail(b))
    ELSE CharCode(Head(a)) < CharCode(Head(b))

\* ORDER BY column puts x before y: name in the BINARY collation, dayOfWeek
\* and created_at as numbers
ColumnLess(column, x, y) ==
    IF column = "name" THEN TextLess(x.name, y.name) ELSE x[column] < y[column]

\* the orders .orderBy(column) may return the rows in: rows with equal values
\* of the column come in any order
RECURSIVE OrderedBy(_, _)
OrderedBy(rows, column) ==
    IF rows = {} THEN {<<>>}
    ELSE UNION {{<<x>> \o t : t \in OrderedBy(rows \ {x}, column)} :
                    x \in {r \in rows : \A y \in rows : ~ColumnLess(column, y, r)}}

\* the items whatever their number
ItemsAlways(items) == Some(items)

\* items && items.length ? items : undefined
ItemsOrUndefined(items) == IF Len(items) > 0 THEN Some(items) ELSE None

\* db(table).where({businessId}).orderBy(column).then(...): the values the
\* query may resolve to
getItems(d, table, column, businessId) ==
    {ItemsOrUndefined(f) :
        f \in OrderedBy({r \in d[table] : r.businessId = businessId}, column)}

getLocations(d, businessId) == getItems(d, "locations", "name", businessId)

getHours(d, businessId) == getItems(d, "hours", "dayOfWeek", businessId)

getServices(d, businessId) == getItems(d, "services", "name", businessId)

getReviews(d, businessId) == getItems(d, "reviews", "created_at", businessId)

\* a business row with its avgRating and the four collections
Record(b, rating, ls, hs, ss, rs) ==
    [id |-> b.id, name |-> b.name, addressLine1 |-> b.addressLine1,
     addressLine2 |-> b.addressLine2, city |-> b.city, state |-> b.state,
     postal |-> b.postal, avgRating |-> rating,
     locations |-> ls, hours |-> hs, services |-> ss, reviews |-> rs]

\* the select with the avgRating subquery and results.map(async (b) => {...})
\* on one row, all read from the same store: the records it may give
Hydrate(d, b) ==
    {Record(b, avgRating(d, b.id), ls, hs, ss, rs) :
        ls \in getLocations(d, b.id), hs \in getHours(d, b.id),
        ss \in getServices(d, b.id), rs \in getReviews(d, b.id)}

\* Promise.all(results.map(...)) over the rows of a page
RECURSIVE HydratePage(_, _)
HydratePage(d, f) ==
    IF Len(f) = 0 THEN {<<>>}
    ELSE {<<h>> \o t : h \in Hydrate(d, Head(f)), t \in HydratePage(d, Tail(f))}

\* router.get('/:businessId'): the hydrated business, or 404
BusinessGet(id) ==
    /\ inflight = {}
    /\ LET rows == {b \in db.businesses : b.id = id}
       IN  IF rows = {}
           THEN last' = [op |-> "GET /businesses/:businessId", id |-> id, status |-> 404,
                         body |-> None]
           ELSE \E b \in rows : \E h \in Hydrate(db, b) :
                   last' = [op |-> "GET /businesses/:businessId", id |-> id,
                            status |-> 200, body |-> Some(h)]
    /\ UNCHANGED <<db, nextId, inflight, deleted, now>>

----------------------------------------------------------------------------
(* Specifications *)

Init ==
    /\ db = EmptyDb
    /\ nextId = 1
    /\ last = [op |-> "none", status |-> 0]
    /\ inflight = {}
    /\ deleted = {}
    /\ now = 0

\* bodies nested in a create payload: rows that go in, rows that collide with
\* one another, rows a NOT NULL column rejects, and an hour with open >= close
NestedHourBodies ==
    {HourBody(None, Some(0), Some(8), Some(17)),
     HourBody(Some(1), Some(0), Some(9), Some(12)),
     HourBody(None, Some(1), Some(17), Some(8))}

NestedLocationBodies == {NameBody(Some(1), Some(<<"a">>)), NameBody(None, None)}

NestedServiceBodies == {NameBody(Some(1), Some(<<"a">>))}

NestedReviewBodies == {ReviewBody(Some(1), Some(5), None), ReviewBody(None, None, None)}

\* name, id and address of a create payload
CreateScalars ==
    {<<None, None, None>>, <<None, Some(<<"a">>), None>>,
     <<Some(1), Some(<<"b">>), Some(<<"a">>)>>}

\* create payloads with nested collections of every kind
CreateRequests ==
    {p \in {BusinessBody(sc[1], sc[2], sc[3], ls, hs, ss, rs) :
               sc \in CreateScalars,
               ls \in SeqsUpTo(NestedLocationBodies, 1),
               hs \in SeqsUpTo(NestedHourBodies, MaxNested),
               ss \in SeqsUpTo(NestedServiceBodies, 1),
               rs \in SeqsUpTo(NestedReviewBodies, 1)} :
        NestedCount(p) <= MaxNested}

NextCreate ==
    \/ \E p \in CreateRequests : BusinessCreate(p, MaxId)
    \/ \E id \in Ids : BusinessDelete(id)

SpecCreate == Init /\ [][NextCreate]_vars

----------------------------------------------------------------------------
(* Claims about POST /businesses *)

IsCreate(l) == l.op = "POST /businesses"

\* the rows of a table that belong to a business
RowsOf(d, table, businessId) == {r \in d[table] : r.businessId = businessId}

\* d1 is d0 plus the business id, named as the payload says, and as many rows of
\* each collection as the payload carries, all of them the new business's
StoredAll(d0, d1, p, id) ==
    /\ \E b \in d1.businesses :
          /\ b.id = id /\ b.name = Val(p.name)
          /\ d1.businesses = d0.businesses \cup {b}
          /\ b \notin d0.businesses
    /\ \A t \in ChildTables :
          /\ d0[t] \subseteq d1[t]
          /\ d1[t] \ d0[t] = RowsOf(d1, t, id)
          /\ Cardinality(RowsOf(d1, t, id)) = Len(p[t])

\* C1: a create stores the business and every nested row, or leaves every table
\* as it was; it answers 200 exactly in the first case
C1_CreateAllOrNothing ==
    [][IsCreate(last') =>
          \/ last'.status = 200 /\ StoredAll(db, db', last'.req, last'.id)
          \/ last'.status # 200 /\ db' = db]_vars

\* a create failed at its last insert, after the business and a location went in
\* on the transaction, and nothing of it is stored
C1_Witness ==
    /\ IsCreate(last) /\ last.status = 500
    /\ Len(last.req.locations) = 1 /\ IsSome(last.req.locations[1].name)
    /\ Len(last.req.reviews) = 1 /\ ~IsSome(last.req.reviews[1].rating)
    /\ \A b \in db.businesses : b.name # Val(last.req.name)

\* an hour body with open >= close
OpenNotBeforeClose(h) ==
    IsSome(h.open) /\ IsSome(h.close) /\ Val(h.open) >= Val(h.close)

\* C2: after a create whose nested hours hold an hour with open >= close, no
\* business and no nested row of that request is stored
C2_BadNestedHourRollsBack ==
    (IsCreate(last) /\ \E i \in 1..Len(last.req.hours) : OpenNotBeforeClose(last.req.hours[i]))
        => /\ last.status # 200
           /\ \A b \in db.businesses : b.id # last.id
           /\ \A t \in ChildTables : RowsOf(db, t, last.id) = {}

----------------------------------------------------------------------------
(* Claims about the hours of a business *)

\* create payloads that carry nothing but hours
HourCreateRequests ==
    {BusinessBody(None, Some(n), None, <<>>, hs, <<>>, <<>>) :
        n \in BusinessNames, hs \in SeqsUpTo(NestedHourBodies, MaxNested)}

\* the businesses the hour requests address: the first two ids handed out
HourBusinessIds == {1, 2}

\* bodies of an hour put: the valid ones, one with open > close, one out of range
HourPutBodies ==
    ValidHourBodies \cup
        {HourBody(None, Some(1), Some(17), Some(8)), HourBody(None, Some(7), Some(8), Some(17))}

NextHours ==
    \/ \E p \in HourCreateRequests : BusinessCreate(p, MaxId)
    \/ \E businessId \in HourBusinessIds, b \in HourBodies :
          ChildPost("hours", businessId, b, MaxId)
    \/ \E businessId \in HourBusinessIds, id \in Ids, b \in HourPutBodies :
          ChildPut("hours", businessId, id, b)

SpecHours == Init /\ [][NextHours]_vars

\* C3: every stored hour has dayOfWeek in 0..6, open and close in 0..23 and
\* open < close
C3_StoredHoursValid ==
    \A h \in db.hours :
        /\ h.dayOfWeek \in 0..6
        /\ h.open \in 0..23
        /\ h.close \in 0..23
        /\ h.open < h.close

IsChild(l, verb, table) == l.op = verb /\ l.table = table

\* no business has two hour rows for one dayOfWeek
OneHourPerDay(d) ==
    \A r1, r2 \in d.hours :
        (r1.businessId = r2.businessId /\ r1.dayOfWeek = r2.dayOfWeek) => r1 = r2

\* the request just answered asked for a second row for a (businessId, dayOfWeek):
\* a post for a day the business has, a put moving a row onto the day of another
\* row, a create with two nested hours for one day
AsksSecondHour(d, l) ==
    \/ /\ IsChild(l, "POST", "hours") /\ IsSome(l.req.dayOfWeek)
       /\ \E r \in d.hours :
             r.businessId = l.businessId /\ r.dayOfWeek = Val(l.req.dayOfWeek)
    \/ /\ IsChild(l, "PUT", "hours") /\ IsSome(l.req.dayOfWeek)
       /\ Selected(d.hours, l.id, l.businessId) # {}
       /\ \E r \in d.hours :
             /\ r.id # l.id /\ r.businessId = l.businessId
             /\ r.dayOfWeek = Val(l.req.dayOfWeek)
    \/ /\ IsCreate(l)
       /\ \E i, j \in 1..Len(l.req.hours) :
             /\ i # j /\ IsSome(l.req.hours[i].dayOfWeek)
             /\ l.req.hours[i].dayOfWeek = l.req.hours[j].dayOfWeek

\* C6: a business never has two hour rows for one dayOfWeek, and a request that
\* asks for a second one is not answered 200 and leaves the hours as they were
C6_OneHourPerDay ==
    [][/\ OneHourPerDay(db')
       /\ AsksSecondHour(db, last') => (last'.status # 200 /\ db'.hours = db.hours)]_vars

\* a put that would have moved an hour onto the day of another hour of the
\* business was answered 500
C6_Witness ==
    /\ IsChild(last, "PUT", "hours") /\ last.status = 500
    /\ \E r1, r2 \in db.hours :
          /\ r1.id = last.id /\ r1.businessId = last.businessId
          /\ r2.id # r1.id /\ r2.businessId = r1.businessId
          /\ r2.dayOfWeek = Val(last.req.dayOfWeek)
          /\ r1.dayOfWeek # r2.dayOfWeek

----------------------------------------------------------------------------
(* Claims about DELETE /businesses/{businessId} *)

\* create payloads with no child, with a location and an hour, with a service
\* and a review
CascadeCreateRequests ==
    {BusinessBody(None, Some(n), None, c[1], c[2], c[3], c[4]) :
        n \in BusinessNames,
        c \in {<<<<>>, <<>>, <<>>, <<>>>>,
               <<<<NameBody(None, Some(<<"a">>))>>,
                 <<HourBody(None, Some(0), Some(8), Some(17))>>, <<>>, <<>>>>,
               <<<<>>, <<>>, <<NameBody(None, Some(<<"a">>))>>,
                 <<ReviewBody(None, Some(5), None)>>>>}}

NextCascade ==
    \/ \E p \in CascadeCreateRequests : BusinessCreate(p, MaxId)
    \/ \E id \in Ids : BusinessDelete(id)
    \/ \E id \in Ids : BusinessGet(id)
    \/ \E t \in ChildTables, businessId \in Ids : ChildList(t, businessId)
    \/ \E t \in ChildTables, businessId \in Ids, id \in Ids : ChildGet(t, businessId, id)

SpecCascade == Init /\ [][NextCascade]_vars

\* the businesses a successful delete has removed
DeletedBusinesses == {x.businessId : x \in deleted}

\* C4: once a delete of a business has succeeded, the business row and every
\* child row of the business are gone, and a get of the business, of one of its
\* collections or of one of its children answers 404
C4_DeletedIsGone ==
    /\ \A id \in DeletedBusinesses :
          /\ \A b \in db.businesses : b.id # id
          /\ \A t \in ChildTables : RowsOf(db, t, id) = {}
    /\ (last.op = "GET /businesses/:businessId" /\ last.id \in DeletedBusinesses)
          => last.status = 404
    /\ (last.op \in {"LIST", "GET"} /\ last.businessId \in DeletedBusinesses)
          => last.status = 404

\* a child that was stored when its business was deleted has been asked for and
\* the answer was 404
C4_Witness ==
    /\ last.op = "GET" /\ last.status = 404
    /\ [table |-> last.table, id |-> last.id, businessId |-> last.businessId] \in deleted

----------------------------------------------------------------------------
(* Concurrent requests: a handler runs up to its next awaited query, and the   *)
(* queries of the requests in flight interleave in any order                  *)

Request(kind, table, businessId, id, b, pc) ==
    [kind |-> kind, table |-> table, businessId |-> businessId, id |-> id, req |-> b,
     pc |-> pc]

Respond(r, status) ==
    ChildResponse(r.kind, r.table, r.businessId, r.id, r.req, status)

\* router.post('/') of a child router up to its first await: the body is checked,
\* the id drawn and the businessId stamped
PostReceive(table, businessId, b, cap) ==
    /\ Cardinality(inflight) < MaxInflight
    /\ nextId <= cap
    /\ IF ~BodyValid(table, b)
       THEN /\ last' = ChildResponse("POST", table, businessId, nextId, b, 400)
            /\ UNCHANGED <<nextId, inflight>>
       ELSE /\ inflight' = inflight \cup
                              {Request("POST", table, businessId, nextId, b, "count")}
            /\ nextId' = nextId + 1
            /\ UNCHANGED last
    /\ UNCHANGED <<db, deleted, now>>

\* await db('businesses').count('* as c').where({id: businessId}) of a post
PostCount(r) ==
    /\ r \in inflight /\ r.kind = "POST" /\ r.pc = "count"
    /\ IF businessCount(db, r.businessId) < 1
       THEN /\ inflight' = inflight \ {r}
            /\ last' = Respond(r, 404)
       ELSE /\ inflight' = (inflight \ {r}) \cup {[r EXCEPT !.pc = "insert"]}
            /\ UNCHANGED last
    /\ UNCHANGED <<db, nextId, deleted, now>>

\* await db(table).insert(row) of a post
PostInsert(r) ==
    /\ r \in inflight /\ r.kind = "POST" /\ r.pc = "insert"
    /\ LET res == InsertRow(r.table, db, Stamp(r.req, r.id, r.businessId))
       IN  /\ db' = res.db
           /\ last' = Respond(r, IF res.ok THEN 200 ELSE 500)
    /\ inflight' = inflight \ {r}
    /\ UNCHANGED <<nextId, deleted, now>>

\* router.delete('/:businessId') up to its first await
DeleteReceive(id) ==
    /\ Cardinality(inflight) < MaxInflight
    /\ inflight' = inflight \cup {Request("DELETE", "businesses", id, id, None, "count")}
    /\ UNCHANGED <<db, nextId, last, deleted, now>>

\* await db('businesses').count('* as c').where({id}) of a delete
DeleteCount(r) ==
    /\ r \in inflight /\ r.kind = "DELETE" /\ r.pc = "count"
    /\ IF businessCount(db, r.id) < 1
       THEN /\ inflight' = inflight \ {r}
            /\ last' = Respond(r, 404)
       ELSE /\ inflight' = (inflight \ {r}) \cup {[r EXCEPT !.pc = "del"]}
            /\ UNCHANGED last
    /\ UNCHANGED <<db, nextId, deleted, now>>

\* await db('businesses').del().where({id}) of a delete
DeleteDel(r) ==
    /\ r \in inflight /\ r.kind = "DELETE" /\ r.pc = "del"
    /\ db' = DeleteBusiness(db, r.id)
    /\ deleted' = deleted \cup RowsOfBusiness(db, r.id)
    /\ last' = Respond(r, 200)
    /\ inflight' = inflight \ {r}
    /\ UNCHANGED <<nextId, now>>

\* a review with rating 6 is turned away before any query
ConcBodies(table) ==
    {ValidBody(table, None)} \cup
        (IF table = "reviews" THEN {ReviewBody(None, Some(6), None)} ELSE {})

ConcCreateRequests ==
    {BusinessBody(None, Some(n), None, <<>>, <<>>, <<>>, <<>>) : n \in BusinessNames}

ConcBusinessIds == {1}

NextConc ==
    \/ \E p \in ConcCreateRequests : BusinessCreate(p, MaxId)
    \/ \E t \in ChildTables, businessId \in ConcBusinessIds :
          \E b \in ConcBodies(t) : PostReceive(t, businessId, b, MaxId)
    \/ \E r \in inflight : PostCount(r)
    \/ \E r \in inflight : PostInsert(r)
    \/ \E id \in ConcBusinessIds : DeleteReceive(id)
    \/ \E r \in inflight : DeleteCount(r)
    \/ \E r \in inflight : DeleteDel(r)

SpecConc == Init /\ [][NextConc]_vars

\* C5: every stored location, hour, service and review belongs to a stored
\* business, however the queries of child posts and business deletes interleave
C5_NoOrphans ==
    \A t \in ChildTables : \A r \in db[t] : \E b \in db.businesses : b.id = r.businessId

\* a review post found its business, the business was deleted before the insert
\* ran, and the insert was refused: the post was answered 500
C5_Witness ==
    /\ IsChild(last, "POST", "reviews") /\ last.status = 500
    /\ last.businessId \in DeletedBusinesses

----------------------------------------------------------------------------
(* Claims about business names *)

IsPut(l) == l.op = "PUT /businesses/:businessId"

\* create payloads without children: no name, the names a and b
NameCreateRequests ==
    {BusinessBody(None, n, None, <<>>, <<>>, <<>>, <<>>) :
        n \in {None} \cup {Some(x) : x \in BusinessNames}}

\* put bodies: a rename to a or b, an address alone, nothing
NamePutBodies ==
    {PutBody(None, n, a, None, None) :
        n \in {None} \cup {Some(x) : x \in BusinessNames}, a \in {None, Some(<<"b">>)}}

NextNames ==
    \/ \E p \in NameCreateRequests : BusinessCreate(p, MaxId)
    \/ \E id \in Ids, b \in NamePutBodies : BusinessPut(id, b)
    \/ \E id \in Ids : BusinessDelete(id)

SpecNames == Init /\ [][NextNames]_vars

UniqueNames(d) ==
    \A b1, b2 \in d.businesses : b1.name = b2.name => b1 = b2

\* the request just answered asked for a name another stored business has: a
\* create with that name, a put that renames a stored business to it
TakesUsedName(d, l) ==
    \/ /\ IsCreate(l) /\ IsSome(l.req.name)
       /\ \E b \in d.businesses : b.name = Val(l.req.name)
    \/ /\ IsPut(l) /\ IsSome(l.req.name)
       /\ \E b \in d.businesses : b.id = l.id
       /\ \E b \in d.businesses : b.id # l.id /\ b.name = Val(l.req.name)

\* C7: no two stored businesses have the same name, and a create or a put that
\* asks for the name of another business is not answered 200 and leaves the
\* business rows as they were
C7_UniqueBusinessNames ==
    [][/\ UniqueNames(db')
       /\ TakesUsedName(db, last') =>
             (last'.status # 200 /\ db'.businesses = db.businesses)]_vars

\* a put that would have renamed a business to the name of another one was
\* answered 500
C7_Witness ==
    /\ IsPut(last) /\ last.status = 500
    /\ \E b1, b2 \in db.businesses :
          /\ b1.id = last.id /\ b2.id # b1.id
          /\ b2.name = Val(last.req.name) /\ b1.name # b2.name

----------------------------------------------------------------------------
(* Claims about ids *)

\* create payloads that carry an id, with children that carry an id and a
\* businessId
IdCreateRequests ==
    {BusinessBody(Some(1), Some(n), None, c[1], c[2], c[3], c[4]) :
        n \in BusinessNames,
        c \in {<<<<>>, <<>>, <<>>, <<>>>>,
               <<<<ValidBody("locations", Some(1))>>, <<>>, <<>>, <<>>>>,
               <<<<>>, <<>>, <<ValidBody("services", Some(1))>>,
                 <<ValidBody("reviews", Some(1))>>>>}}

\* the body of a child put: other values than ValidBody, with an id and a
\* businessId of its own
IdPutBody(table) ==
    CASE table = "hours"     -> HourBody(Some(1), Some(6), Some(0), Some(23))
      [] table = "locations" -> NameBody(Some(1), Some(<<"b">>))
      [] table = "services"  -> NameBody(Some(1), Some(<<"b">>))
      [] table = "reviews"   -> ReviewBody(Some(1), Some(2), Some(<<"a">>))

\* the tables posted to; services and reviews come in nested in the creates
IdPostTables == {"hours", "locations"}

IdBusinessIds == {1, 2}

NextIds ==
    \/ \E p \in IdCreateRequests : BusinessCreate(p, MaxId)
    \/ \E t \in IdPostTables, businessId \in IdBusinessIds :
          ChildPost(t, businessId, ValidBody(t, Some(1)), MaxId)
    \/ \E t \in ChildTables, businessId \in IdBusinessIds, id \in Ids :
          ChildPut(t, businessId, id, IdPutBody(t))
    \/ \E id \in IdBusinessIds :
          BusinessPut(id, PutBody(Some(1), None, Some(<<"a">>), None, None))

SpecIds == Init /\ [][NextIds]_vars

\* the rows of all five tables, each named by its table, id and owning business
RowKeys(d) ==
    {[table |-> "businesses", id |-> b.id, businessId |-> b.id] : b \in d.businesses}
    \cup UNION {{[table |-> t, id |-> r.id, businessId |-> r.businessId] : r \in d[t]} :
                  t \in ChildTables}

\* the rows a step has added
NewKeys(d0, d1) == RowKeys(d1) \ RowKeys(d0)

\* every added row has an id drawn from the generator in this step, no two of
\* them the same one, and belongs to the business owner
FreshlyStamped(d0, d1, from, to, owner) ==
    /\ \A k \in NewKeys(d0, d1) : k.id \in from..(to - 1) /\ k.businessId = owner
    /\ \A k1, k2 \in NewKeys(d0, d1) : k1.id = k2.id => k1 = k2

\* C8: the rows a create or a child post stores have freshly generated ids and
\* the id of the owning business as businessId, whatever id or businessId the
\* payload carries; a business put or child put changes no id and no businessId
C8_IdsAreServerGenerated ==
    [][/\ IsCreate(last') => FreshlyStamped(db, db', nextId, nextId', last'.id)
       /\ last'.op = "POST" => FreshlyStamped(db, db', nextId, nextId', last'.businessId)
       /\ (IsPut(last') \/ last'.op = "PUT") => RowKeys(db') = RowKeys(db)]_vars

\* a create whose payload and nested location carry the id 1 has stored a
\* business with another id and the location under a third id, owned by the
\* new business
C8_Witness ==
    /\ IsCreate(last) /\ last.status = 200
    /\ last.req.id = Some(1) /\ last.id # 1
    /\ Len(last.req.locations) = 1 /\ last.req.locations[1].id = Some(1)
    /\ \E b \in db.businesses : b.id = last.id
    /\ \E l \in db.locations : l.businessId = last.id /\ l.id \notin {1, last.id}

----------------------------------------------------------------------------
(* POST /businesses/search *)

MAX_BUSINESS_PER_PAGE == 25

\* SQLite's LIKE: % matches any run of characters, _ any one character, and
\* any other character itself, ASCII letters without regard to case
RECURSIVE Like(_, _)
Like(text, pattern) ==
    IF Len(pattern) = 0 THEN Len(text) = 0
    ELSE IF Head(pattern) = "%"
    THEN Like(text, Tail(pattern)) \/ (Len(text) > 0 /\ Like(Tail(text), pattern))
    ELSE /\ Len(text) > 0
         /\ Head(pattern) = "_" \/ LowerChar(Head(pattern)) = LowerChar(Head(text))
         /\ Like(Tail(text), Tail(pattern))

\* .where(column, 'like', `%${x.toLowerCase()}%`): a NULL column matches nothing
WhereLike(column, x) ==
    IsSome(column) /\ Like(Val(column), <<"%">> \o toLowerCase(x) \o <<"%">>)

\* the whereExists on hours with both comparisons strict
HoursClauseStrict(d, b, dayOfWeek, hour) ==
    \E h \in d.hours :
        /\ h.businessId = b.id /\ h.dayOfWeek = dayOfWeek
        /\ h.open < hour /\ h.close > hour

\* the whereExists on hours: a row of the business for the day with
\* open <= hour and close >= hour
HoursClause(d, b, dayOfWeek, hour) ==
    \E h \in d.hours :
        /\ h.businessId = b.id /\ h.dayOfWeek = dayOfWeek
        /\ h.open <= hour /\ h.close >= hour

\* the whereExists on services and on locations
ExistsLike(rows, b, x) ==
    \E r \in rows : r.businessId = b.id /\ WhereLike(Some(r.name), x)

\* the rating clause with a NULL avgRating counted as 0
RatingClauseNullAsZero(d, b, rating) ==
    (IF IsSome(avgRating(d, b.id)) THEN Val(avgRating(d, b.id)) ELSE 0) >= rating

\* where avgRating >= rating (both in tenths): NULL is never >= anything
RatingClause(d, b, rating) ==
    IsSome(avgRating(d, b.id)) /\ Val(avgRating(d, b.id)) >= rating

\* the clauses the where builder adds, each under the condition of its if
SearchWhere(d, b, s) ==
    /\ Truthy(s.name) => WhereLike(Some(b.name), Val(s.name))
    /\ Truthy(s.addressLine1) => WhereLike(b.addressLine1, Val(s.addressLine1))
    /\ Truthy(s.addressLine2) => WhereLike(b.addressLine2, Val(s.addressLine2))
    /\ Truthy(s.city) => WhereLike(b.city, Val(s.city))
    /\ Truthy(s.state) => WhereLike(b.state, Val(s.state))
    /\ Truthy(s.postal) => WhereLike(b.postal, Val(s.postal))
    /\ (IsSome(s.dayOfWeek) /\ IsSome(s.hour))
          => HoursClause(d, b, Val(s.dayOfWeek), Val(s.hour))
    /\ Truthy(s.service) => ExistsLike(d.services, b, Val(s.service))
    /\ Truthy(s.location) => ExistsLike(d.locations, b, Val(s.location))
    /\ IsSome(s.rating) => RatingClause(d, b, Val(s.rating))

\* the check of dayOfWeek and hour without the two range checks
DayHourInvalidUnranged(s) == IsSome(s.dayOfWeek) # IsSome(s.hour)

\* the three 400 checks of dayOfWeek and hour, in order
DayHourInvalid(s) ==
    \/ IsSome(s.dayOfWeek) # IsSome(s.hour)
    \/ IsSome(s.dayOfWeek) /\ (Val(s.dayOfWeek) < 0 \/ Val(s.dayOfWeek) > 6)
    \/ IsSome(s.hour) /\ (Val(s.hour) < 0 \/ Val(s.hour) > 23)

\* the checks of sortBy and sortDirection comparing the values as given
SortInvalidCaseSensitive(s) ==
    \/ Truthy(s.sortBy) /\ Val(s.sortBy) \notin {<<"n", "a", "m", "e">>,
                                                 <<"r", "a", "t", "i", "n", "g">>}
    \/ Truthy(s.sortDirection)
          /\ Val(s.sortDirection) \notin {<<"a", "s", "c">>, <<"d", "e", "s", "c">>}

\* the 400 checks of sortBy and sortDirection, each lower-cased first
SortInvalid(s) ==
    \/ Truthy(s.sortBy) /\ toLowerCase(Val(s.sortBy)) \notin {<<"n", "a", "m", "e">>,
                                                             <<"r", "a", "t", "i", "n", "g">>}
    \/ Truthy(s.sortDirection)
          /\ toLowerCase(Val(s.sortDirection)) \notin {<<"a", "s", "c">>, <<"d", "e", "s", "c">>}

\* the 400 checks of router.post('/search'), in order
SearchInvalid(s) == DayHourInvalid(s) \/ SortInvalid(s)

\* search.sortBy and search.sortDirection after the defaults
SortBy(s) == IF Truthy(s.sortBy) THEN toLowerCase(Val(s.sortBy)) ELSE <<"n", "a", "m", "e">>

SortDirection(s) ==
    IF Truthy(s.sortDirection) THEN toLowerCase(Val(s.sortDirection)) ELSE <<"a", "s", "c">>

\* ORDER BY column ASC puts x before y: NULL sorts before every value
SortsBefore(d, s, x, y) ==
    IF SortBy(s) = <<"n", "a", "m", "e">> THEN TextLess(x.name, y.name)
    ELSE LET ax == avgRating(d, x.id)
             ay == avgRating(d, y.id)
         IN  IF ~IsSome(ay) THEN FALSE
             ELSE IF ~IsSome(ax) THEN TRUE
             ELSE Val(ax) < Val(ay)

\* the rows that may come first in the direction: no other row sorts before
\* them
ComesFirst(d, s, direction, rows) ==
    {x \in rows : \A y \in rows :
        IF direction = <<"a", "s", "c">> THEN ~SortsBefore(d, s, y, x)
        ELSE ~SortsBefore(d, s, x, y)}

\* the sequences of the rows in the order of the column and direction: rows
\* that compare equal come in any order
RECURSIVE Ordered(_, _, _, _)
Ordered(d, s, direction, rows) ==
    IF rows = {} THEN {<<>>}
    ELSE UNION {{<<x>> \o t : t \in Ordered(d, s, direction, rows \ {x})} :
                    x \in ComesFirst(d, s, direction, rows)}

\* orderBy taking every direction for ascending
OrderByAscending(d, s, rows) == Ordered(d, s, <<"a", "s", "c">>, rows)

\* .orderBy(column, direction): the orders the query may return the rows in
OrderBy(d, s, rows) == Ordered(d, s, SortDirection(s), rows)

\* .limit without a limit
LimitNone(f, n) == f

\* .limit(MAX_BUSINESS_PER_PAGE)
Limit(f, n) == [i \in 1..(IF Len(f) < n THEN Len(f) ELSE n) |-> f[i]]

\* a status of 200 whatever the query returned
SearchStatusAlwaysOk(f) == 200

\* if (businesses && businesses.length) 200, else 404
SearchStatus(f) == IF Len(f) > 0 THEN 200 ELSE 404

\* router.post('/search'): 400, or the first page of the matching businesses in
\* order (their ids in body, the hydrated records in records), 404 when there
\* is none
Search(s) ==
    /\ inflight = {}
    /\ IF SearchInvalid(s)
       THEN last' = [op |-> "POST /businesses/search", req |-> s, status |-> 400,
                     matched |-> {}, body |-> <<>>, records |-> <<>>]
       ELSE LET rows == {b \in db.businesses : SearchWhere(db, b, s)}
            IN  \E f \in OrderBy(db, s, rows) :
                  \E records \in HydratePage(db, Limit(f, MAX_BUSINESS_PER_PAGE)) :
                   last' = [op |-> "POST /businesses/search", req |-> s,
                            status |-> SearchStatus(Limit(f, MAX_BUSINESS_PER_PAGE)),
                            matched |-> {b.id : b \in rows},
                            body |-> [i \in DOMAIN Limit(f, MAX_BUSINESS_PER_PAGE) |-> f[i].id],
                            records |-> records]
    /\ UNCHANGED <<db, nextId, inflight, deleted, now>>

----------------------------------------------------------------------------
(* Claims about search *)

\* a search body: a is the value of the five address fields, sl of service and
\* of location, rating is in tenths
SearchBody(n, a, dayOfWeek, hour, sv, lc, rating, sortBy, sortDirection) ==
    [name |-> n, addressLine1 |-> a, addressLine2 |-> a, city |-> a, state |-> a,
     postal |-> a, dayOfWeek |-> dayOfWeek, hour |-> hour, service |-> sv,
     location |-> lc, rating |-> rating, sortBy |-> sortBy, sortDirection |-> sortDirection]

NoFilter == SearchBody(None, None, None, None, None, None, None, None, None)

\* searches with every combination of a name, an address, a day and hour, a
\* service and location, and a rating filter
CombinedSearches ==
    {SearchBody(n, a, dh[1], dh[2], x, x, r, None, None) :
        n \in {None, Some(<<"b">>)}, a \in {None, Some(<<"A", "B">>)},
        dh \in {<<None, None>>, <<Some(0), Some(8)>>},
        x \in {None, Some(<<"a">>)}, r \in {None, Some(45)}}

\* searches with one filter: names with a wildcard or empty, hours at and
\* beyond the bounds of the stored rows and out of range, ratings, sort fields
SingleSearches ==
    {[NoFilter EXCEPT !.name = Some(n)] : n \in {<<>>, <<"_">>, <<"%">>, <<"B", "a">>}}
    \cup {[NoFilter EXCEPT !.dayOfWeek = dh[1], !.hour = dh[2]] :
             dh \in {<<Some(0), Some(7)>>, <<Some(0), Some(12)>>, <<Some(0), Some(17)>>,
                     <<Some(0), Some(18)>>, <<Some(6), Some(8)>>, <<None, Some(8)>>,
                     <<Some(0), None>>, <<Some(7), Some(8)>>, <<Some(0), Some(24)>>,
                     <<Some(-1), Some(8)>>, <<Some(0), Some(-1)>>}}
    \cup {[NoFilter EXCEPT !.service = Some(<<"A">>)], [NoFilter EXCEPT !.location = Some(<<"a">>)]}
    \cup {[NoFilter EXCEPT !.rating = Some(r)] : r \in {0, 46, 50}}
    \cup {[NoFilter EXCEPT !.sortBy = Some(<<"R", "a", "t", "i", "n", "g">>),
                           !.sortDirection = sd] : sd \in {None, Some(<<"D", "E", "S", "C">>)}}
    \cup {[NoFilter EXCEPT !.sortBy = Some(<<>>), !.sortDirection = Some(<<>>)],
          [NoFilter EXCEPT !.sortBy = Some(<<"i", "d">>)],
          [NoFilter EXCEPT !.sortDirection = Some(<<"u", "p">>)],
          [NoFilter EXCEPT !.sortDirection = Some(<<"d", "e", "s", "c">>)]}

SearchRequests == CombinedSearches \cup SingleSearches

\* the businesses the searches run over: one with an address and one without,
\* with hours from 8 to 17 or from 9 to 12 on day 0, a service, a location, and
\* reviews averaging 5, 4.5 or none
SearchCreateRequests ==
    {BusinessBody(None, Some(na[1]), na[2], c[1], c[2], c[3], c[4]) :
        na \in {<<<<"a", "b">>, Some(<<"A", "b">>)>>, <<<<"B">>, None>>},
        c \in {<<<<>>, <<>>, <<>>, <<>>>>,
               <<<<>>, <<HourBody(None, Some(0), Some(8), Some(17))>>, <<>>,
                 <<ReviewBody(None, Some(5), None)>>>>,
               <<<<>>, <<HourBody(None, Some(0), Some(9), Some(12))>>,
                 <<NameBody(None, Some(<<"a">>))>>, <<>>>>,
               <<<<NameBody(None, Some(<<"A">>))>>, <<>>, <<>>,
                 <<ReviewBody(None, Some(5), None), ReviewBody(None, Some(4), None)>>>>}}

NextSearch ==
    \/ \E p \in SearchCreateRequests : BusinessCreate(p, MaxSearchId)
    \/ \E s \in SearchRequests : Search(s)

SpecSearch == Init /\ [][NextSearch]_vars

IsSearch(l) == l.op = "POST /businesses/search"

\* text contains x as a substring, letters compared without regard to case
Contains(text, x) ==
    \E i \in 1..(Len(text) + 1) :
        /\ i + Len(x) - 1 <= Len(text)
        /\ \A k \in 1..Len(x) : LowerChar(text[i + k - 1]) = LowerChar(x[k])

\* the text filter on an attribute: the empty string is contained in anything
TextFilter(attribute, x) ==
    Len(x) = 0 \/ (IsSome(attribute) /\ Contains(Val(attribute), x))

\* the business satisfies every filter whose field the request carries
SatisfiesFilters(d, b, s) ==
    /\ IsSome(s.name) => TextFilter(Some(b.name), Val(s.name))
    /\ \A f \in {"addressLine1", "addressLine2", "city", "state", "postal"} :
          IsSome(s[f]) => TextFilter(b[f], Val(s[f]))
    /\ (IsSome(s.dayOfWeek) /\ IsSome(s.hour)) =>
          \E h \in RowsOf(d, "hours", b.id) :
              h.dayOfWeek = Val(s.dayOfWeek) /\ h.open <= Val(s.hour) /\ Val(s.hour) <= h.close
    /\ IsSome(s.service) =>
          \E r \in RowsOf(d, "services", b.id) : TextFilter(Some(r.name), Val(s.service))
    /\ IsSome(s.location) =>
          \E r \in RowsOf(d, "locations", b.id) : TextFilter(Some(r.name), Val(s.location))
    /\ IsSome(s.rating) =>
          /\ RowsOf(d, "reviews", b.id) # {}
          /\ Val(avgRating(d, b.id)) >= Val(s.rating)

\* C9: a valid search matches exactly the businesses that satisfy every filter
\* the request carries, the text filters being substring matches
C9_SearchMatchesExactly ==
    (IsSearch(last) /\ last.status # 400) =>
        last.matched = {b.id : b \in {x \in db.businesses : SatisfiesFilters(db, x, last.req)}}

\* the request without its dayOfWeek and hour
WithoutHours(s) == [s EXCEPT !.dayOfWeek = None, !.hour = None]

\* C10: of the businesses that pass the other filters, a search with dayOfWeek d
\* and hour h matches exactly those with an hour row for day d whose open is
\* at most h and whose close is at least h
C10_HoursFilterInclusive ==
    (IsSearch(last) /\ last.status # 400 /\ IsSome(last.req.dayOfWeek) /\ IsSome(last.req.hour))
        => last.matched =
              {b.id : b \in
                  {x \in db.businesses :
                      /\ SearchWhere(db, x, WithoutHours(last.req))
                      /\ \E h \in RowsOf(db, "hours", x.id) :
                            /\ h.dayOfWeek = Val(last.req.dayOfWeek)
                            /\ h.open <= Val(last.req.hour)
                            /\ Val(last.req.hour) <= h.close}}

\* a search for day 0, hour 8 has matched a business that opens at 8 on day 0
\* and left out one whose only hour on day 0 opens later
C10_Witness ==
    /\ IsSearch(last) /\ last.status = 200
    /\ last.req.dayOfWeek = Some(0) /\ last.req.hour = Some(8)
    /\ \E b1, b2 \in db.businesses :
          /\ b1.id \in last.matched
          /\ \E h \in RowsOf(db, "hours", b1.id) : h.dayOfWeek = 0 /\ h.open = 8
          /\ b2.id \notin last.matched
          /\ RowsOf(db, "hours", b2.id) # {}
          /\ \A h \in RowsOf(db, "hours", b2.id) : h.dayOfWeek = 0 /\ h.open > 8

\* the request without its rating
WithoutRating(s) == [s EXCEPT !.rating = None]

\* the mean of the ratings of the rows to the nearest tenth, in tenths, a half
\* rounded up
RoundedMean(rows) ==
    LET n == Cardinality(rows)
        total == SumOfRatings(rows)
    IN  CHOOSE t \in 0..50 : 2 * n * t - n <= 20 * total /\ 20 * total < 2 * n * t + n

\* C11: of the businesses that pass the other filters, a search with rating r
\* matches exactly those that have a review and whose mean rating, rounded to
\* one decimal, is at least r; a business without reviews is never matched
C11_RatingFilter ==
    (IsSearch(last) /\ last.status # 400 /\ IsSome(last.req.rating))
        => last.matched =
              {b.id : b \in
                  {x \in db.businesses :
                      /\ SearchWhere(db, x, WithoutRating(last.req))
                      /\ RowsOf(db, "reviews", x.id) # {}
                      /\ RoundedMean(RowsOf(db, "reviews", x.id)) >= Val(last.req.rating)}}

\* a search with rating 0 has matched a business with reviews and left out one
\* without
C11_Witness ==
    /\ IsSearch(last) /\ last.status = 200 /\ last.req.rating = Some(0)
    /\ \E b1, b2 \in db.businesses :
          /\ b1.id \in last.matched /\ RowsOf(db, "reviews", b1.id) # {}
          /\ b2.id \notin last.matched /\ RowsOf(db, "reviews", b2.id) = {}

\* the stored business with the id
BusinessOf(d, id) == CHOOSE b \in d.businesses : b.id = id

\* the request asks for the order by rating, for descending order
ByRating(s) == IsSome(s.sortBy) /\ toLowerCase(Val(s.sortBy)) = <<"r", "a", "t", "i", "n", "g">>

Descending(s) ==
    IsSome(s.sortDirection) /\ toLowerCase(Val(s.sortDirection)) = <<"d", "e", "s", "c">>

\* the name a is the name b or comes before it: a is a prefix of b, or has the
\* smaller character where the two first differ
NameAtMost(a, b) ==
    \/ Len(a) <= Len(b) /\ \A k \in 1..Len(a) : a[k] = b[k]
    \/ \E k \in 1..Len(a) :
          /\ k <= Len(b) /\ CharCode(a[k]) < CharCode(b[k])
          /\ \A j \in 1..(k - 1) : a[j] = b[j]

\* x may come right before y in ascending order of the key; two businesses
\* of which one has no avgRating are not compared
KeyAtMost(d, s, x, y) ==
    IF ByRating(s)
    THEN (RowsOf(d, "reviews", x.id) # {} /\ RowsOf(d, "reviews", y.id) # {})
            => RoundedMean(RowsOf(d, "reviews", x.id)) <= RoundedMean(RowsOf(d, "reviews", y.id))
    ELSE NameAtMost(x.name, y.name)

\* C12: the businesses of a search response come in the order asked for: by
\* name, or by avgRating with sortBy rating, ascending, or descending with
\* sortDirection desc; by name ascending when neither is supplied
C12_ResultsSorted ==
    (IsSearch(last) /\ last.status = 200) =>
        \A i \in 1..(Len(last.body) - 1) :
            LET x == BusinessOf(db, last.body[i])
                y == BusinessOf(db, last.body[i + 1])
            IN  IF Descending(last.req) THEN KeyAtMost(db, last.req, y, x)
                ELSE KeyAtMost(db, last.req, x, y)

\* a search by rating, descending, has returned a business averaging 5 before
\* one averaging 4.5
C12_Witness ==
    /\ IsSearch(last) /\ last.status = 200
    /\ ByRating(last.req) /\ Descending(last.req)
    /\ Len(last.body) = 2
    /\ avgRating(db, last.body[1]) = Some(50)
    /\ avgRating(db, last.body[2]) = Some(45)

----------------------------------------------------------------------------
(* The page of a search over more businesses than a page holds *)

\* the name of the business created with the id: z down to a, then A, B, ...,
\* so that the order of the names is not the order of creation
PageName(i) == IF i <= 26 THEN <<LowerCase[27 - i]>> ELSE <<UpperCase[((i - 27) % 26) + 1]>>

PageCreateRequest(i) == BusinessBody(None, Some(PageName(i)), None, <<>>, <<>>, <<>>, <<>>)

\* searches by name in either direction, with and without a name filter, and
\* one with a sortBy that is rejected
PageSearches ==
    {NoFilter,
     [NoFilter EXCEPT !.sortDirection = Some(<<"d", "e", "s", "c">>)],
     [NoFilter EXCEPT !.sortBy = Some(<<"N", "a", "m", "e">>)],
     [NoFilter EXCEPT !.sortBy = Some(<<"n", "a", "m", "e">>),
                      !.sortDirection = Some(<<"D", "E", "S", "C">>)],
     [NoFilter EXCEPT !.name = Some(<<"a">>)],
     [NoFilter EXCEPT !.name = Some(<<"q">>)],
     [NoFilter EXCEPT !.sortBy = Some(<<"i", "d">>)]}

NextPage ==
    \/ \E p \in {PageCreateRequest(nextId)} : BusinessCreate(p, MaxPageId)
    \/ \E s \in PageSearches : Search(s)

SpecPage == Init /\ [][NextPage]_vars

\* x comes no later than y in the order the request asks for
InRequestedOrder(d, s, x, y) ==
    IF Descending(s) THEN KeyAtMost(d, s, y, x) ELSE KeyAtMost(d, s, x, y)

\* C13: a search response holds at most 25 businesses; when more than 25
\* match it holds 25 of them, and every matching business left out comes no
\* earlier in the requested order than every business returned
C13_FirstPageOnly ==
    (IsSearch(last) /\ last.status = 200) =>
        LET returned == {last.body[i] : i \in DOMAIN last.body}
        IN  /\ Len(last.body) <= 25
            /\ Cardinality(returned) = Len(last.body)
            /\ returned \subseteq last.matched
            /\ Cardinality(last.matched) > 25 =>
                  /\ Len(last.body) = 25
                  /\ \A i \in returned, j \in last.matched \ returned :
                        InRequestedOrder(db, last.req, BusinessOf(db, i), BusinessOf(db, j))

\* a search matching more than 25 businesses has returned 25, the first of
\* them a business created after the 25th
C13_Witness ==
    /\ IsSearch(last) /\ last.status = 200
    /\ Cardinality(last.matched) > 25
    /\ Len(last.body) = 25
    /\ last.body[1] > 25

\* C14: a search that is not rejected answers 404 exactly when no stored
\* business passes its filters, so also when none is stored, and otherwise
\* 200 with at least one business; a 200 never carries an empty array
C14_NotFoundIffNoMatch ==
    (IsSearch(last) /\ last.status # 400) =>
        LET matching == {b \in db.businesses : SearchWhere(db, b, last.req)}
        IN  /\ last.status \in {200, 404}
            /\ last.status = 404 <=> matching = {}
            /\ last.status = 200 <=> Len(last.body) > 0
            /\ db.businesses = {} => last.status = 404

\* a search over a store that holds businesses has answered 404
C14_Witness ==
    /\ IsSearch(last) /\ last.status = 404
    /\ db.businesses # {}
    /\ last.body = <<>>

\* the request supplies exactly one of dayOfWeek and hour, or a dayOfWeek
\* outside 0..6, or an hour outside 0..23
DayHourRejectable(s) ==
    \/ IsSome(s.dayOfWeek) /\ ~IsSome(s.hour)
    \/ ~IsSome(s.dayOfWeek) /\ IsSome(s.hour)
    \/ IsSome(s.dayOfWeek) /\ Val(s.dayOfWeek) \notin 0..6
    \/ IsSome(s.hour) /\ Val(s.hour) \notin 0..23

\* C15: a search with exactly one of dayOfWeek and hour, or with a dayOfWeek
\* outside 0..6 or an hour outside 0..23, is answered 400 with nothing
\* queried; a search with both in range or with neither, and no sort fields,
\* is not answered 400
C15_DayHourValidated ==
    IsSearch(last) =>
        /\ DayHourRejectable(last.req) =>
              last.status = 400 /\ last.matched = {} /\ last.body = <<>>
        /\ (~DayHourRejectable(last.req) /\ last.req.sortBy = None
                /\ last.req.sortDirection = None) => last.status # 400

\* a search with both fields and a dayOfWeek of 7 has been answered 400 over
\* a store holding a business
C15_Witness ==
    /\ IsSearch(last) /\ last.status = 400
    /\ last.req.dayOfWeek = Some(7) /\ IsSome(last.req.hour)
    /\ db.businesses # {}

\* the request supplies a sortBy other than name and rating or a
\* sortDirection other than asc and desc, letters compared without regard to
\* case; an empty string counts as not supplied
SortRejectable(s) ==
    \/ /\ IsSome(s.sortBy) /\ Val(s.sortBy) # <<>>
       /\ \A k \in {<<"n", "a", "m", "e">>, <<"r", "a", "t", "i", "n", "g">>} :
             toLowerCase(Val(s.sortBy)) # k
    \/ /\ IsSome(s.sortDirection) /\ Val(s.sortDirection) # <<>>
       /\ \A k \in {<<"a", "s", "c">>, <<"d", "e", "s", "c">>} :
             toLowerCase(Val(s.sortDirection)) # k

----------------------------------------------------------------------------
(* Get, update and delete of a business by id *)

\* create payloads: the names a and b, without children or with one hour
UpdateCreateRequests ==
    {BusinessBody(None, Some(n), None, <<>>, hs, <<>>, <<>>) :
        n \in BusinessNames, hs \in {<<>>, <<HourBody(None, Some(0), Some(8), Some(17))>>}}

NoFields == PutBody(None, None, None, None, None)

\* put bodies: nothing; a name; addressLine2 alone; the key addressline2 alone;
\* a city alone; a name together with an id and a nested hours array
UpdatePutBodies ==
    {NoFields,
     [NoFields EXCEPT !.name = Some(<<"b">>)],
     [NoFields EXCEPT !.addressLine2 = Some(<<"x">>)],
     [NoFields EXCEPT !.addressline2 = Some(<<"x">>)],
     [NoFields EXCEPT !.city = Some(<<"x">>)],
     [hours |-> <<HourBody(None, Some(1), Some(9), Some(12))>>]
        @@ [NoFields EXCEPT !.id = Some(3), !.name = Some(<<"a">>)]}

UpdateBusinessIds == {1, 2, 3}

NextUpdate ==
    \/ \E p \in UpdateCreateRequests : BusinessCreate(p, MaxId)
    \/ \E id \in UpdateBusinessIds : BusinessGet(id)
    \/ \E id \in UpdateBusinessIds, b \in UpdatePutBodies : BusinessPut(id, b)
    \/ \E id \in UpdateBusinessIds : BusinessDelete(id)

SpecUpdate == Init /\ [][NextUpdate]_vars

\* the six attributes a put may change
ScalarFields == {"name", "addressLine1", "addressLine2", "city", "state", "postal"}

\* the attributes of the six the put body supplies
Supplied(b) == {f \in ScalarFields : IsSome(b[f])}

IsById(l) ==
    l.op \in {"GET /businesses/:businessId", "PUT /businesses/:businessId",
              "DELETE /businesses/:businessId"}

\* C17: a get, a delete, or an update supplying one of the six attributes,
\* of an id no stored business has is answered 404 and changes no table
C17_MissingBusinessIs404 ==
    [][(/\ IsById(last')
        /\ ~\E b \in db.businesses : b.id = last'.id
        /\ (IsPut(last') => Supplied(last'.req) # {}))
          => (last'.status = 404 /\ db' = db)]_vars

\* the attribute of a stored business, as an optional value
Stored(row, f) == IF f = "name" THEN Some(row.name) ELSE row[f]

\* C18: a put is answered 400 exactly when its body supplies none of name,
\* addressLine1, addressLine2, city, state and postal; after a put answered
\* 200 the business has every attribute the body supplied
C18_PutNeedsOneField ==
    IsPut(last) =>
        /\ last.status = 400 <=> Supplied(last.req) = {}
        /\ last.status = 200 =>
              \A f \in Supplied(last.req) : Stored(BusinessOf(db, last.id), f) = last.req[f]

\* C19: a put answered 200 leaves every child table, the ids of the stored
\* businesses, every other business, and the attributes of its business that
\* the body does not supply as they were
C19_PutChangesOnlySupplied ==
    [][(IsPut(last') /\ last'.status = 200) =>
         /\ \A t \in ChildTables : db'[t] = db[t]
         /\ {b.id : b \in db'.businesses} = {b.id : b \in db.businesses}
         /\ \A b \in db.businesses : b.id # last'.id => b \in db'.businesses
         /\ \A f \in ScalarFields \ Supplied(last'.req) :
               Stored(BusinessOf(db', last'.id), f) = Stored(BusinessOf(db, last'.id), f)]_vars

\* a put carrying an id, a name and a nested hours array has been answered 200
\* for a business that has a city and an hour, beside another business
C19_Witness ==
    /\ IsPut(last) /\ last.status = 200
    /\ "hours" \in DOMAIN last.req /\ IsSome(last.req.id)
    /\ RowsOf(db, "hours", last.id) # {}
    /\ IsSome(BusinessOf(db, last.id).city)
    /\ Cardinality(db.businesses) = 2

----------------------------------------------------------------------------
(* Requests answered with an error, on every endpoint *)

\* an hour on each of two days, and two hours on one day
TwoDays ==
    <<HourBody(None, Some(0), Some(8), Some(17)), HourBody(None, Some(1), Some(8), Some(17))>>

SameDay ==
    <<HourBody(None, Some(0), Some(8), Some(17)), HourBody(None, Some(0), Some(9), Some(12))>>

\* create payloads: without a name, and with the name a and no hours, hours
\* on two days, or two hours on one day
ErrorCreateRequests ==
    {BusinessBody(None, None, None, <<>>, <<>>, <<>>, <<>>)}
    \cup {BusinessBody(None, Some(<<"a">>), None, <<>>, hs, <<>>, <<>>) :
             hs \in {<<>>, TwoDays, SameDay}}

\* one body for each child table that its router rejects
InvalidBody(table) ==
    CASE table = "hours"     -> HourBody(None, Some(0), Some(17), Some(8))
      [] table = "locations" -> NameBody(None, None)
      [] table = "services"  -> NameBody(None, Some(<<>>))
      [] table = "reviews"   -> ReviewBody(None, Some(6), None)

ErrorChildBodies(table) == {ValidBody(table, None), InvalidBody(table)}

\* the businesses the requests address, and the business and the row the
\* puts, deletes and gets of the child routers address
ErrorBusinessIds == {1, 2}

ErrorParentId == 1

ErrorChildId == 3

ErrorPutBodies == {NoFields, [NoFields EXCEPT !.name = Some(<<"b">>)]}

ErrorSearches ==
    {NoFilter, [NoFilter EXCEPT !.name = Some(<<"q">>)],
     [NoFilter EXCEPT !.sortBy = Some(<<"i", "d">>)]}

NextErrors ==
    \/ \E p \in ErrorCreateRequests : BusinessCreate(p, MaxId)
    \/ \E id \in ErrorBusinessIds : BusinessGet(id)
    \/ \E id \in ErrorBusinessIds, b \in ErrorPutBodies : BusinessPut(id, b)
    \/ \E id \in ErrorBusinessIds : BusinessDelete(id)
    \/ \E s \in ErrorSearches : Search(s)
    \/ \E t \in ChildTables, businessId \in ErrorBusinessIds :
          \E b \in ErrorChildBodies(t) : ChildPost(t, businessId, b, MaxId)
    \/ \E t \in ChildTables :
          \E b \in ErrorChildBodies(t) : ChildPut(t, ErrorParentId, ErrorChildId, b)
    \/ \E t \in ChildTables : ChildDelete(t, ErrorParentId, ErrorChildId)
    \/ \E t \in ChildTables : ChildList(t, ErrorParentId)
    \/ \E t \in ChildTables : ChildGet(t, ErrorParentId, ErrorChildId)

SpecErrors == Init /\ [][NextErrors]_vars

\* C20: a request answered 400, 404 or 500 leaves every table as it was; a
\* put of a business whose body supplies nothing is answered 400
C20_ErrorsChangeNothing ==
    [][/\ last'.status \in {400, 404, 500} => db' = db
       /\ (IsPut(last') /\ \A k \in DOMAIN last'.req : last'.req[k] = None)
             => last'.status = 400]_vars

\* a create with two hours on one day has been answered 500 while no stored
\* business has its name: the insert of the business had succeeded
C20_Witness ==
    /\ IsCreate(last) /\ last.status = 500
    /\ last.req.hours = SameDay
    /\ db.businesses # {}
    /\ \A b \in db.businesses : Some(b.name) # last.req.name

----------------------------------------------------------------------------
(* Hydrated records: get by id and search after creates and review changes *)

\* the clock of the store passes to the next second
Tick ==
    /\ inflight = {}
    /\ now < MaxNow
    /\ now' = now + 1
    /\ UNCHANGED <<db, nextId, last, inflight, deleted>>

\* create payloads: no children; two locations and two hours, neither in
\* order; a service and two reviews
HydrateCreateRequests ==
    {BusinessBody(None, Some(n), None, c[1], c[2], c[3], c[4]) :
        n \in BusinessNames,
        c \in {<<<<>>, <<>>, <<>>, <<>>>>,
               <<<<NameBody(None, Some(<<"b">>)), NameBody(None, Some(<<"a">>))>>,
                 <<HourBody(None, Some(1), Some(8), Some(17)),
                   HourBody(None, Some(0), Some(8), Some(17))>>, <<>>, <<>>>>,
               <<<<>>, <<>>, <<NameBody(None, Some(<<"a">>))>>,
                 <<ReviewBody(None, Some(5), Some(<<"a">>)),
                   ReviewBody(None, Some(2), None)>>>>}}

\* the businesses the gets address; the business and the reviews the review
\* requests address
HydrateBusinessIds == {1, 2}

HydrateBusinessId == 1

HydrateReviewIds == {3, 4}

HydrateReviewBody == ReviewBody(None, Some(4), None)

HydratePostBodies == {HydrateReviewBody, ReviewBody(None, Some(5), None)}

HydrateSearches == {NoFilter, [NoFilter EXCEPT !.rating = Some(40)]}

NextHydrate ==
    \/ \E p \in HydrateCreateRequests : BusinessCreate(p, MaxSearchId)
    \/ \E id \in HydrateBusinessIds : BusinessGet(id)
    \/ \E s \in HydrateSearches : Search(s)
    \/ \E b \in HydratePostBodies :
          ChildPost("reviews", HydrateBusinessId, b, MaxId)
    \/ \E id \in HydrateReviewIds :
          ChildPut("reviews", HydrateBusinessId, id, HydrateReviewBody)
    \/ \E id \in HydrateReviewIds : ChildDelete("reviews", HydrateBusinessId, id)
    \/ Tick

SpecHydrate == Init /\ [][NextHydrate]_vars

IsGet(l) == l.op = "GET /businesses/:businessId"

\* the hydrated records of the response
HydratedRecords(l) ==
    IF IsGet(l) /\ l.status = 200 THEN {Val(l.body)}
    ELSE IF IsSearch(l) THEN {l.records[i] : i \in DOMAIN l.records}
    ELSE {}

\* C21: in every record of a get by id and of a search, each of locations,
\* hours, services and reviews is present, and then holds exactly the rows of
\* the business, when the business has a row of the kind, and is absent when
\* it has none
C21_CollectionsPresentIffNonEmpty ==
    \A h \in HydratedRecords(last), t \in ChildTables :
        /\ IsSome(h[t]) <=> RowsOf(db, t, h.id) # {}
        /\ IsSome(h[t]) =>
              /\ Len(Val(h[t])) = Cardinality(RowsOf(db, t, h.id))
              /\ {Val(h[t])[i] : i \in DOMAIN Val(h[t])} = RowsOf(db, t, h.id)

\* a search has returned one business with reviews and no hours beside one
\* with hours and no reviews
C21_Witness ==
    /\ IsSearch(last) /\ last.status = 200
    /\ \E i, j \in DOMAIN last.records :
          /\ IsSome(last.records[i].reviews) /\ ~IsSome(last.records[i].hours)
          /\ IsSome(last.records[j].hours) /\ ~IsSome(last.records[j].reviews)

\* C22: in every record of a get by id and of a search, avgRating is the
\* mean of the ratings of the reviews the business has at that moment,
\* rounded to one decimal, and is absent when it has no review
C22_AvgRatingIsRoundedMean ==
    \A h \in HydratedRecords(last) :
        LET rows == RowsOf(db, "reviews", h.id)
        IN  IF rows = {} THEN h.avgRating = None
            ELSE h.avgRating = Some(RoundedMean(rows))

\* a get has returned 4.5 for a business created with the reviews 5 and 2
\* after an update of the second review to 4
C22_Witness ==
    /\ IsGet(last) /\ last.status = 200
    /\ Val(last.body).avgRating = Some(45)
    /\ \E r1, r2 \in RowsOf(db, "reviews", last.id) :
          /\ r1.rating = 5 /\ r1.comment = Some(<<"a">>)
          /\ r2.rating = 4 /\ r2.id = r1.id + 1

\* the collection of a record as a sequence, empty when absent
Items(h, t) == IF IsSome(h[t]) THEN Val(h[t]) ELSE <<>>

\* the record h of a get shows the business created from the payload p with
\* the id: its attributes, and as many rows of each collection as submitted
SameBusiness(p, id, h) ==
    /\ h.id = id /\ h.name = Val(p.name)
    /\ \A f \in ScalarFields \ {"name"} : h[f] = p[f]
    /\ \A t \in ChildTables : Len(Items(h, t)) = Len(p[t])

\* locations and services come by name, hours by dayOfWeek, ascending
CollectionsSorted(h) ==
    /\ \A t \in {"locations", "services"} : \A i \in 1..(Len(Items(h, t)) - 1) :
          NameAtMost(Items(h, t)[i].name, Items(h, t)[i + 1].name)
    /\ \A i \in 1..(Len(Items(h, "hours")) - 1) :
          Items(h, "hours")[i].dayOfWeek <= Items(h, "hours")[i + 1].dayOfWeek

\* the reviews come as submitted
ReviewsAsSubmitted(p, h) ==
    \A i \in 1..Len(Items(h, "reviews")) :
        /\ i <= Len(p.reviews)
        /\ Items(h, "reviews")[i].rating = Val(p.reviews[i].rating)
        /\ Items(h, "reviews")[i].comment = p.reviews[i].comment

----------------------------------------------------------------------------
(* Claims about the per-child routers *)

IsChildOp(l) == l.op \in {"LIST", "GET", "POST", "PUT", "DELETE"}

HasBody(l) == l.op \in {"POST", "PUT"}

\* the fields of a child body are acceptable: an hour has dayOfWeek in 0..6,
\* open and close in 0..23 and open < close; a review a rating in 0..5; a
\* location or service a name that is not empty
FieldsValid(table, b) ==
    CASE table = "hours" ->
            /\ IsSome(b.dayOfWeek) /\ IsSome(b.open) /\ IsSome(b.close)
            /\ Val(b.dayOfWeek) \in 0..6 /\ Val(b.open) \in 0..23 /\ Val(b.close) \in 0..23
            /\ Val(b.open) < Val(b.close)
      [] table = "reviews" -> IsSome(b.rating) /\ Val(b.rating) \in 0..5
      [] table \in {"locations", "services"} -> IsSome(b.name) /\ Val(b.name) # <<>>

ParentMissing(l) == ~\E b \in db.businesses : b.id = l.businessId

\* C24 as stated: every per-child operation under a business that is not
\* stored is answered 404, whatever its body
C24_ParentCheckedFirst ==
    (IsChildOp(last) /\ ParentMissing(last)) => last.status = 404

\* C24 as amended: a per-child operation under a business that is not stored
\* is answered 404, except a create or update whose body has unacceptable
\* fields, which is answered 400
C24_ParentCheckedAfterBody ==
    (IsChildOp(last) /\ ParentMissing(last)) =>
        IF HasBody(last) /\ ~FieldsValid(last.table, last.req)
        THEN last.status = 400
        ELSE last.status = 404

\* a create of a child with acceptable fields under a business that is not
\* stored has been answered 404 while another business is stored
C24_Witness ==
    /\ last.op = "POST" /\ last.status = 404
    /\ FieldsValid(last.table, last.req)
    /\ ParentMissing(last) /\ db.businesses # {}

\* the rows of the request's table with its id under its business
Addressed(d, l) == Selected(d[l.table], l.id, l.businessId)

\* C25: a get, update (with acceptable fields) or delete of a child id that
\* has no row under its stored business is answered 404 and changes nothing
C25_MissingChildIs404 ==
    [][(/\ last'.op \in {"GET", "PUT", "DELETE"}
        /\ ~ParentMissing(last')
        /\ Addressed(db, last') = {}
        /\ (last'.op = "PUT" => FieldsValid(last'.table, last'.req)))
          => (last'.status = 404 /\ db' = db)]_vars

----------------------------------------------------------------------------
(* Field validation of the child routers: posts and puts with one field at
   a time over the edges of its range, and hours with close at or before open *)

FieldCreateRequest == BusinessBody(None, Some(<<"a">>), None, <<>>, <<>>, <<>>, <<>>)

\* a field left out, just below, at both ends of, and just above lo..hi
Edges(lo, hi) == {None, Some(lo - 1), Some(lo), Some(hi), Some(hi + 1)}

FieldBodies(table) ==
    CASE table = "hours" ->
            {HourBody(None, d, Some(0), Some(23)) : d \in Edges(0, 6)}
            \cup {HourBody(None, Some(0), o, Some(23)) : o \in Edges(0, 23)}
            \cup {HourBody(None, Some(0), Some(0), c) : c \in Edges(0, 23)}
            \cup {HourBody(None, Some(6), Some(23), c) : c \in {Some(0), Some(23)}}
      [] table = "reviews" -> {ReviewBody(None, r, None) : r \in Edges(0, 5)}
      [] table \in {"locations", "services"} ->
            {NameBody(None, n) : n \in {None, Some(<<>>), Some(<<"a">>)}}

\* the businesses the requests address and the row the puts address
FieldBusinessIds == {1, 2}

FieldChildId == 2

NextFields ==
    \/ BusinessCreate(FieldCreateRequest, 1)
    \/ \E t \in ChildTables, businessId \in FieldBusinessIds :
          \E b \in FieldBodies(t) : ChildPost(t, businessId, b, MaxId)
    \/ \E t \in ChildTables, businessId \in FieldBusinessIds :
          \E b \in FieldBodies(t) : ChildPut(t, businessId, FieldChildId, b)

SpecFields == Init /\ [][NextFields]_vars

\* C26: a create or update of a child whose fields are unacceptable (an hour
\* with dayOfWeek missing or outside 0..6, open or close missing or outside
\* 0..23, or open >= close; a review with rating missing or outside 0..5; a
\* location or service with a missing or empty name) is answered 400 and
\* leaves every table as it was
C26_InvalidFieldsRejected ==
    [][(HasBody(last') /\ ~FieldsValid(last'.table, last'.req))
          => (last'.status = 400 /\ db' = db)]_vars

\* an update of a stored hour with close before open has been answered 400
C26_Witness ==
    /\ last.op = "PUT" /\ last.table = "hours" /\ last.status = 400
    /\ last.req.open = Some(23) /\ last.req.close = Some(0)
    /\ last.req.dayOfWeek = Some(6)
    /\ Addressed(db, last) # {}

----------------------------------------------------------------------------
(* Validation and the store *)

\* the checks a handler makes on its request before its first query
Rejects(l) ==
    CASE IsCreate(l) -> ~Truthy(l.req.name)
      [] IsPut(l)    -> NoFieldSupplied(l.req)
      [] IsSearch(l) -> SearchInvalid(l.req)
      [] HasBody(l)  -> ~BodyValid(l.table, l.req)
      [] OTHER       -> FALSE

\* C27: on every endpoint the answer is 400 exactly when the request fails
\* the handler's validation, whatever is stored (so also when the business
\* it names is not stored), and a request answered 400 changes no table and
\* draws no id
C27_ValidationBeforeStore ==
    [][/\ last'.status = 400 <=> Rejects(last')
       /\ last'.status = 400 => (db' = db /\ nextId' = nextId)]_vars

\* an update that supplies no field, aimed at a business that is not stored
\* while another is, has been answered 400
C27_Witness ==
    /\ IsPut(last) /\ last.status = 400
    /\ db.businesses # {}
    /\ \A b \in db.businesses : b.id # last.id

----------------------------------------------------------------------------
(* GET /businesses/{businessId} query by query: the select of the row with
   its avgRating, then getLocations, getHours, getServices and getReviews,
   each awaited, while the queries of other requests run in between. A
   request in flight carries the record built so far and, as history, the
   stores its queries have read *)

GetResponse(id, status, body, reads) ==
    [op |-> "GET /businesses/:businessId", id |-> id, status |-> status, body |-> body,
     reads |-> reads]

\* router.get('/:businessId') up to its first await
GetReceive(id) ==
    /\ Cardinality(inflight) < MaxInflight
    /\ inflight' = inflight \cup
                      {Request("GET", "businesses", id, id,
                               [body |-> None, reads |-> <<>>], "row")}
    /\ UNCHANGED <<db, nextId, last, deleted, now>>

\* the row without its avgRating
SelectBusinessUnrated(d, id) ==
    {Record(b, None, None, None, None, None) : b \in {x \in d.businesses : x.id = id}}

\* db('businesses').select('*', db('reviews')...as('avgRating')).where({id})
SelectBusiness(d, id) ==
    {Record(b, avgRating(d, b.id), None, None, None, None) :
        b \in {x \in d.businesses : x.id = id}}

\* the select of a get resolves; without a row the map is empty and the
\* answer is 404
GetRow(r) ==
    /\ r \in inflight /\ r.kind = "GET" /\ r.pc = "row"
    /\ IF SelectBusiness(db, r.id) = {}
       THEN /\ inflight' = inflight \ {r}
            /\ last' = GetResponse(r.id, 404, None, <<db>>)
       ELSE \E h \in SelectBusiness(db, r.id) :
               /\ inflight' = (inflight \ {r}) \cup
                      {[r EXCEPT !.pc = "locations",
                                 !.req = [body |-> Some(h), reads |-> <<db>>]]}
               /\ UNCHANGED last
    /\ UNCHANGED <<db, nextId, deleted, now>>

\* the order of the awaits in the map callback
Collections == <<"locations", "hours", "services", "reviews">>

\* the column each of getLocations, getHours, getServices, getReviews orders by
OrderColumn(table) ==
    CASE table = "locations" -> "name"
      [] table = "hours"     -> "dayOfWeek"
      [] table = "services"  -> "name"
      [] table = "reviews"   -> "created_at"

\* b.locations = await getLocations(b.id), ..., b.reviews = await
\* getReviews(b.id): the next of the four resolves; after the last one the
\* record is sent
GetCollection(r) ==
    /\ r \in inflight /\ r.kind = "GET" /\ r.pc \in ChildTables
    /\ \E items \in getItems(db, r.pc, OrderColumn(r.pc), r.id) :
          LET h == [Val(r.req.body) EXCEPT ![r.pc] = items]
              reads == Append(r.req.reads, db)
          IN  IF r.pc = "reviews"
              THEN /\ inflight' = inflight \ {r}
                   /\ last' = GetResponse(r.id, 200, Some(h), reads)
              ELSE /\ inflight' = (inflight \ {r}) \cup
                          {[r EXCEPT !.pc = Collections[Len(reads) + 1],
                                     !.req = [body |-> Some(h), reads |-> reads]]}
                   /\ UNCHANGED last
    /\ UNCHANGED <<db, nextId, deleted, now>>

\* a business with a location and a review
ReadCreateRequest ==
    BusinessBody(None, Some(<<"a">>), None, <<NameBody(None, Some(<<"a">>))>>, <<>>, <<>>,
                 <<ReviewBody(None, Some(5), None)>>)

ReadBusinessId == 1

ReadReviewBody == ReviewBody(None, Some(2), None)

NextRead ==
    \/ BusinessCreate(ReadCreateRequest, MaxId)
    \/ GetReceive(ReadBusinessId)
    \/ \E r \in inflight : GetRow(r)
    \/ \E r \in inflight : GetCollection(r)
    \/ PostReceive("reviews", ReadBusinessId, ReadReviewBody, MaxId)
    \/ \E r \in inflight : PostCount(r)
    \/ \E r \in inflight : PostInsert(r)
    \/ DeleteReceive(ReadBusinessId)
    \/ \E r \in inflight : DeleteCount(r)
    \/ \E r \in inflight : DeleteDel(r)

SpecRead == Init /\ [][NextRead]_vars

\* a get answered 200 query by query
IsRead(l) == IsGet(l) /\ l.status = 200 /\ "reads" \in DOMAIN l

\* C28: the row and the avgRating of a returned record were stored together
\* when the first query ran, and a record whose five queries all read the
\* same store is a hydration of that store: a record that fits no single
\* store needs a write between its queries
C28_TornOnlyBetweenWrites ==
    IsRead(last) =>
        LET h == Val(last.body)
            d == last.reads[1]
        IN  /\ \E b \in d.businesses :
                  /\ b.id = last.id
                  /\ h.avgRating = avgRating(d, b.id)
                  /\ h = Record(b, h.avgRating, h.locations, h.hours, h.services,
                                h.reviews)
            /\ (\A i \in DOMAIN last.reads : last.reads[i] = d)
                  => \E b \in d.businesses : h \in Hydrate(d, b)

\* a get has returned a record with an avgRating and no collection for a
\* business that had a location and a review when its row was read; none of
\* the stores its queries read holds a business this record is a hydration of
C28_Witness ==
    /\ IsRead(last)
    /\ IsSome(Val(last.body).avgRating)
    /\ \A t \in ChildTables : Val(last.body)[t] = None
    /\ \E r \in last.reads[1].locations : r.businessId = last.id
    /\ \E r \in last.reads[1].reviews : r.businessId = last.id
    /\ \A i \in DOMAIN last.reads :
          \A b \in last.reads[i].businesses : Val(last.body) \notin Hydrate(last.reads[i], b)

----------------------------------------------------------------------------
(* Two businesses with a child each: puts, deletes and gets of the child of
   one under the path of the other *)

\* a business with one child, of any of the four kinds
ScopeCreateRequests ==
    {BusinessBody(None, Some(n), None,
                  IF t = "locations" THEN <<ValidBody(t, None)>> ELSE <<>>,
                  IF t = "hours" THEN <<ValidBody(t, None)>> ELSE <<>>,
                  IF t = "services" THEN <<ValidBody(t, None)>> ELSE <<>>,
                  IF t = "reviews" THEN <<ValidBody(t, None)>> ELSE <<>>) :
        n \in BusinessNames, t \in ChildTables}

\* the ids the two creates hand out: business, child, business, child
ScopeBusinessIds == {1, 3}

ScopeChildIds == {2, 4}

NextScope ==
    \/ \E p \in ScopeCreateRequests : BusinessCreate(p, MaxId)
    \/ \E t \in ChildTables, businessId \in ScopeBusinessIds, id \in ScopeChildIds :
          ChildPut(t, businessId, id, IdPutBody(t))
    \/ \E t \in ChildTables, businessId \in ScopeBusinessIds, id \in ScopeChildIds :
          ChildDelete(t, businessId, id)
    \/ \E t \in ChildTables, businessId \in ScopeBusinessIds, id \in ScopeChildIds :
          ChildGet(t, businessId, id)

SpecScope == Init /\ [][NextScope]_vars

\* C29: a put or delete of a child under a business leaves every row that
\* has another id or belongs to another business as it was, and a get under
\* a business is answered 200 only if a row with the id belongs to that
\* business
C29_ScopedToPathBusiness ==
    [][/\ last'.op \in {"PUT", "DELETE"} =>
             \A t \in DOMAIN db : \A r \in db[t] :
                 (t # last'.table \/ r.id # last'.id \/ r.businessId # last'.businessId)
                    => r \in db'[t]
       /\ (last'.op = "GET" /\ last'.status = 200) =>
             \E r \in db[last'.table] :
                 r.id = last'.id /\ r.businessId = last'.businessId]_vars

\* a child of one stored business has been put under the path of another
\* stored business: the answer was 200 and the row with that id is stored
\* with its owner
C29_Witness ==
    /\ last.op = "PUT" /\ last.status = 200
    /\ \E b \in db.businesses : b.id = last.businessId
    /\ \E r \in db[last.table] :
          /\ r.id = last.id /\ r.businessId # last.businessId
          /\ \E b \in db.businesses : b.id = r.businessId

----------------------------------------------------------------------------
(* POST /businesses with the commit as a step of its own: the callback of
   db.transaction sends the 200 as its last statement, and knex commits when
   the callback has returned. The commit is a call to the store and may
   throw like any other; the transaction holds the connection, so no other
   query runs before it has ended *)

\* the statuses the handler has passed to resp.status(...).send(...), and
\* whether the handler has returned
CreateResponse(p, id, sent, finished) ==
    [op |-> "POST /businesses", req |-> p, id |-> id, status |-> sent[1], sent |-> sent,
     finished |-> finished]

\* router.post('/') up to the end of the transaction callback: the check of
\* the name, the inserts, and resp.status(200).send({id}) when none threw
CreateCallback(p, cap) ==
    /\ inflight = {}
    /\ nextId + NestedCount(p) <= cap
    /\ IF ~Truthy(p.name)
       THEN /\ last' = CreateResponse(p, nextId, <<400>>, TRUE)
            /\ UNCHANGED <<nextId, inflight>>
       ELSE LET rows == CreateRows(p, nextId)
                r == CreateTransaction(db, rows.business, rows.locations, rows.hours,
                                       rows.services, rows.reviews)
            IN  IF r.ok
                THEN /\ last' = CreateResponse(p, nextId, <<200>>, FALSE)
                     /\ inflight' = {Request("POST", "businesses", nextId, nextId,
                                              [body |-> p, working |-> r.db], "commit")}
                     /\ nextId' = nextId + 1 + NestedCount(p)
                ELSE /\ last' = CreateResponse(p, nextId, <<500>>, TRUE)
                     /\ UNCHANGED <<nextId, inflight>>
    /\ UNCHANGED <<db, deleted, now>>

\* the commit succeeds and db.transaction resolves
CreateCommit(r) ==
    /\ r \in inflight /\ r.kind = "POST" /\ r.pc = "commit"
    /\ db' = r.req.working
    /\ inflight' = inflight \ {r}
    /\ last' = [last EXCEPT !.finished = TRUE]
    /\ UNCHANGED <<nextId, deleted, now>>

\* the commit throws: the inserts are rolled back, db.transaction rejects and
\* the catch block calls resp.status(500).send(...)
CreateCommitFails(r) ==
    /\ r \in inflight /\ r.kind = "POST" /\ r.pc = "commit"
    /\ db' = Rollback(db, r.req.working)
    /\ inflight' = inflight \ {r}
    /\ last' = [last EXCEPT !.sent = Append(@, 500), !.finished = TRUE]
    /\ UNCHANGED <<nextId, deleted, now>>

CommitCreateRequests ==
    CascadeCreateRequests \cup {BusinessBody(None, None, None, <<>>, <<>>, <<>>, <<>>)}

NextCommit ==
    \/ \E p \in CommitCreateRequests : CreateCallback(p, MaxId)
    \/ \E r \in inflight : CreateCommit(r)
    \/ \E r \in inflight : CreateCommitFails(r)
    \/ \E id \in Ids : BusinessGet(id)

SpecCommit == Init /\ [][NextCommit]_vars

\* C30: when a create request has finished it has sent exactly one response,
\* and if that response is 200 a business with the id it carries is stored
C30_OkOnlyWhenCommitted ==
    (IsCreate(last) /\ last.finished) =>
        /\ Len(last.sent) = 1
        /\ last.sent[1] = 200 => \E b \in db.businesses : b.id = last.id

====
